---------------------------- MODULE Spec2Model ----------------------------
(***************************************************************************)
(* A model of the core of elizabeth (src/elizabeth/core/providers.py):     *)
(* the mask engine (Code.custom_code), the Luhn check digit and its users, *)
(* the derived-attribute store of Personal (age / child_count /            *)
(* work_experience), the provider facade (Generic), the resource store the *)
(* providers load their bundles from (pull), the romanized decorator       *)
(* (src/elizabeth/decorators.py) and some generators of Business, Numbers, *)
(* Network and Structured.                                                 *)
(*                                                                         *)
(* Strings are sequences of one-character strings, so that length,         *)
(* position and concatenation are what they are in Python.                 *)
(*                                                                         *)
(* The random module is modelled by its raw draws: every call of randint   *)
(* or choice consumes one raw natural number r and maps it onto its range. *)
(* An operation that draws takes the raw draws as an input (\E over a set  *)
(* of raw draws that covers every outcome of the call).                    *)
(***************************************************************************)
EXTENDS Integers, Sequences, FiniteSets, TLC

VARIABLES
    codeOp,     \* the Code/utility operation this run calls
    codeArg,    \* its argument: the mask or the numeric string (a sequence
                \* of characters), or the card type (an identifier)
    codeSym,    \* <<char, digit>>: the placeholder symbols of custom_code
    codeRet,    \* the string it returned
    codeErr,    \* the exception it raised, "none" when it returned
    codeMsg,    \* the message of that exception, in the pieces it was
                \* formatted from
    codeNum,    \* credit_card_number: the digits it built, before the split
                \* into groups (history)
    codeDone,   \* TRUE once the call has returned or raised
    store,      \* store[p]: the _store dictionary of Personal instance p
    ageSet,     \* ageSet[p]: age has been invoked on p (history)
    pCall,      \* the latest call on a Personal instance (history)
    locale,     \* Generic: self.locale
    dict,       \* Generic: the other instance attributes, name -> value
    built,      \* built[c]: the instances of class c constructed so far
    latest,     \* latest[n]: the instance of the latest successful
                \* registration under the name n (history)
    registrations,  \* the add_provider calls made so far
    loaded,     \* the <<file, locale>> bundles pull has returned to the
                \* providers constructed for the facade (history)
    gCall,      \* the latest call on the Generic instance (history)
    cache,      \* pull: the bundles kept, <<file, locale>> -> bundle
    pullPc,     \* pullPc[c]: where caller c is in pull ("idle" before its
                \* first call, "parsing", "done" when it returned or raised)
    pullKey,    \* pullKey[c]: the <<file, locale>> of c's latest call
    pullPart,   \* pullPart[c]: what c has parsed of the resource
    pullRet,    \* pullRet[c]: the structure c's latest call returned, as c
                \* holds it now
    pullErr,    \* pullErr[c]: the error c's latest call raised, or "none"
    changed,    \* changed[c]: c has changed the structure it holds
    afterChange,    \* afterChange[c]: when c's latest call began, another
                \* caller had changed a structure of the same key (history)
    decorated,  \* romanized(locale)(func) has returned the wrapper
    wrapperCalls,   \* the calls of that wrapper made so far
    funcRuns,   \* the times the wrapped function has been executed (history)
    jsonArgs,   \* Structured.json: provider_name and items of the call
    jsonPc,     \* where the call is: "idle", "called", "attribute",
                \* "returned" or "raised"
    jsonPos,    \* the item and the attribute (indices) the loops are at
    element,    \* the record being filled
    records     \* data[root_element]: the records appended so far

codeVars ==
    <<codeOp, codeArg, codeSym, codeRet, codeErr, codeMsg, codeNum, codeDone>>

personalVars == <<store, ageSet, pCall>>

genericVars == <<locale, dict, built, latest, registrations, loaded, gCall>>

resourceVars == <<cache, pullPc, pullKey, pullPart, pullRet, pullErr,
                  changed, afterChange>>

decoratorVars == <<decorated, wrapperCalls, funcRuns>>

jsonVars == <<jsonArgs, jsonPc, jsonPos, element, records>>

vars == <<codeOp, codeArg, codeSym, codeRet, codeErr, codeMsg, codeNum,
          codeDone,
          store, ageSet, pCall,
          locale, dict, built, latest, registrations, loaded, gCall,
          cache, pullPc, pullKey, pullPart, pullRet, pullErr, changed,
          afterChange, decorated, wrapperCalls, funcRuns, jsonArgs, jsonPc,
          jsonPos, element, records>>

---------------------------------------------------------------------------
(* Bounds of the model.                                                    *)

MaxMaskLen == 2     \* masks of custom_code have at most this many characters
MaxDigits == 3      \* numeric strings given to luhn_checksum: 1..MaxDigits
MaxMalformed == 2   \* malformed strings given to it: 0..MaxMalformed characters
MaxSpan == 2        \* age(minimum, maximum) is called with maximum - minimum <= MaxSpan
MaxChilds == 2      \* child_count is called with max_childs in 0..MaxChilds
MaxRegistrations == 3   \* add_provider is called at most this many times
NumCallers == 2     \* the callers of pull that run concurrently
MaxTextLen == 3     \* the wrapped function returns texts of 0..MaxTextLen characters
MaxWrapperCalls == 2    \* a decorated function is called at most this many times
MaxPriceSpan == 1   \* price: maximum - minimum is at most this many units
MaxEnd == 12        \* primes: end is at most this
MaxItems == 2       \* json: items is at most this

---------------------------------------------------------------------------
(* string and random: the library values the code imports.                 *)

ascii_uppercase ==
    << "A", "B", "C", "D", "E", "F", "G", "H", "I", "J", "K", "L", "M",
       "N", "O", "P", "Q", "R", "S", "T", "U", "V", "W", "X", "Y", "Z" >>

digits == << "0", "1", "2", "3", "4", "5", "6", "7", "8", "9" >>

Range(seq) == { seq[i] : i \in DOMAIN seq }

\* The raw draws that reach every one of n equally likely outcomes.
Raw(n) == 0 .. (n - 1)

\* random.randint(a, b) on the raw draw r: an integer of a..b.
randint(a, b, r) == a + (r % (b - a + 1))

\* random.choice(seq) on the raw draw r: an element of seq.
choice(seq, r) == seq[(r % Len(seq)) + 1]

\* str(n) for an integer n >= 0: its decimal digits, most significant first.
RECURSIVE str(_)
str(n) ==
    IF n < 10 THEN << digits[n + 1] >>
    ELSE str(n \div 10) \o << digits[(n % 10) + 1] >>

\* int(c) for a one-character string c that is a decimal digit.
int(c) == CHOOSE d \in 0 .. 9 : digits[d + 1] = c

DigitChars == Range(digits)

UpperChars == Range(ascii_uppercase)

IsDigit(c) == c \in DigitChars

IsUpper(c) == c \in UpperChars

\* All sequences over S of length lo..hi.
SeqsOf(S, lo, hi) == UNION { [1 .. n -> S] : n \in lo .. hi }

---------------------------------------------------------------------------
(* Code.custom_code: the mask engine.                                      *)

\* The number of random draws custom_code makes on a mask: one per
\* placeholder character.
NumDraws(mask, char, digit) ==
    Cardinality({ i \in DOMAIN mask : mask[i] = char \/ mask[i] = digit })

\* Faulty variant: the digit is drawn from 0..10.
CodeChar_WideDigit(p, char, digit, r) ==
    IF p = char THEN << choice(ascii_uppercase, r) >>
    ELSE IF p = digit THEN str(randint(0, 10, r))
    ELSE << p >>

\* The loop body of custom_code for one mask character p, on raw draw r.
\* char is tested before digit, as in the code.
CodeChar(p, char, digit, r) ==
    IF p = char THEN << choice(ascii_uppercase, r) >>
    ELSE IF p = digit THEN str(randint(0, 9, r))
    ELSE << p >>

\* custom_code(mask, char, digit) on the raw draws tape (one draw per
\* placeholder, consumed left to right): code grows by one piece per mask
\* character.
RECURSIVE custom_code(_, _, _, _)
custom_code(mask, char, digit, tape) ==
    IF mask = << >> THEN << >>
    ELSE IF Head(mask) = char \/ Head(mask) = digit
         THEN CodeChar(Head(mask), char, digit, Head(tape))
                  \o custom_code(Tail(mask), char, digit, Tail(tape))
         ELSE CodeChar(Head(mask), char, digit, 0)
                  \o custom_code(Tail(mask), char, digit, tape)

---------------------------------------------------------------------------
(* elizabeth.utils.luhn_checksum: the Luhn check digit (section 4.3 of the *)
(* specification; the function's body is not among the sources).           *)

\* The sum of the digits of num where, counting from the rightmost digit,
\* every second digit is doubled (minus 9 when the double exceeds 9);
\* dbl tells whether the rightmost digit of num is doubled.
RECURSIVE LuhnSum(_, _)
LuhnSum(num, dbl) ==
    IF num = << >> THEN 0
    ELSE LET d == int(num[Len(num)])
             x == IF dbl THEN 2 * d ELSE d
         IN  (IF x > 9 THEN x - 9 ELSE x)
                 + LuhnSum(SubSeq(num, 1, Len(num) - 1), ~dbl)

\* Faulty variant: the empty string passes for a numeric string.
Numeric_AllDigits(num) == \A i \in DOMAIN num : IsDigit(num[i])

\* The precondition of luhn_checksum: decimal digits only, at least one.
Numeric(num) == Len(num) >= 1 /\ \A i \in DOMAIN num : IsDigit(num[i])

\* Faulty variant: the doubling starts at the second digit from the right.
luhn_checksum_Shifted(num) ==
    str((10 - (LuhnSum(num, FALSE) % 10)) % 10)

\* luhn_checksum(num): doubling starts with the rightmost digit of num.
luhn_checksum(num) ==
    str((10 - (LuhnSum(num, TRUE) % 10)) % 10)

\* Standard Luhn (mod 10) validation of a complete number, stated on the
\* positions: the digit k places left of the last one counts twice (as the
\* sum of the decimal digits of its double) when k is odd.
LuhnValid(number) ==
    LET n == Len(number)
        w[i \in 0 .. n] ==
            IF i = 0 THEN 0
            ELSE LET d == int(number[i])
                     k == n - i
                 IN  w[i - 1] + (IF k % 2 = 1
                                 THEN ((2 * d) \div 10) + ((2 * d) % 10)
                                 ELSE d)
    IN  /\ n >= 2
        /\ \A i \in 1 .. n : IsDigit(number[i])
        /\ w[n] % 10 = 0

---------------------------------------------------------------------------
(* Code.imei.                                                              *)

\* intd.IMEI_TACS: type allocation codes, eight digits each.
IMEI_TACS ==
    << << "3", "5", "3", "9", "1", "8", "0", "5" >>,
       << "0", "1", "1", "2", "4", "5", "0", "0" >> >>

\* The mask imei hands to custom_code.
ImeiMask == << "#", "#", "#", "#", "#", "#" >>

\* The raw draws explored for the long generators (imei): digits on both
\* sides of the point where a doubled digit exceeds 9.
SparseDraws == { 0, 4, 5, 9 }

\* Faulty variant: the check digit is computed over the serial part only.
imei_SerialOnly(tape) ==
    LET serial == custom_code(ImeiMask, "@", "#", Tail(tape))
        num == choice(IMEI_TACS, Head(tape)) \o serial
    IN  num \o luhn_checksum(serial)

\* imei() on the raw draws tape: one draw for the TAC, six for the serial.
imei(tape) ==
    LET num == choice(IMEI_TACS, Head(tape))
                   \o custom_code(ImeiMask, "@", "#", Tail(tape))
    IN  num \o luhn_checksum(num)

---------------------------------------------------------------------------
(* Code.isbn and Code.ean.                                                 *)

\* intd.ISBN_GROUPS: the registration group of a locale.
ISBN_GROUPS == [en |-> "1", ru |-> "5"]

\* n placeholders '#'.
Hashes(n) == [i \in 1 .. n |-> "#"]

\* The mask of isbn(fmt) on a Code instance of the locale loc: the mask of
\* ISBN-13 for 'isbn-13' and that of ISBN-10 for every other fmt, the
\* group being that of the locale, or '#' for a locale without one.
IsbnMask(fmt, loc) ==
    LET group == IF loc \in DOMAIN ISBN_GROUPS THEN ISBN_GROUPS[loc] ELSE "#"
        tail == << group, "-" >> \o Hashes(5) \o << "-" >> \o Hashes(3)
                    \o << "-", "#" >>
    IN  IF fmt = "isbn-13" THEN Hashes(3) \o << "-" >> \o tail ELSE tail

\* The mask of ean(fmt): 8 digits for 'ean-8', 13 for every other fmt.
EanMask(fmt) == IF fmt = "ean-8" THEN Hashes(8) ELSE Hashes(13)

\* isbn(fmt) and ean(fmt) on the raw draws tape.
isbn(fmt, loc, tape) == custom_code(IsbnMask(fmt, loc), "@", "#", tape)

ean(fmt, tape) == custom_code(EanMask(fmt), "@", "#", tape)

---------------------------------------------------------------------------
(* Personal.credit_card_number.                                            *)

\* The aliases of the three issuing networks.
VisaTypes == { "visa", "vi", "v" }

MasterTypes == { "master_card", "mc", "master", "m" }

AmexTypes == { "american_express", "amex", "ax", "a" }

\* Faulty variant: every number has 16 digits.
CardLength_Sixteen(card_type) == 16

\* The number of digits of the number, check digit included.
CardLength(card_type) == IF card_type \in AmexTypes THEN 15 ELSE 16

\* The widths of the groups of the regular expression that splits it.
CardGroups(card_type) ==
    IF card_type \in AmexTypes THEN << 4, 6, 5 >> ELSE << 4, 4, 4, 4 >>

\* The draws the prefix takes: visa one randint, master card two randint
\* and one choice (the list is built before choice runs), amex one choice.
PrefixDraws(card_type) == IF card_type \in MasterTypes THEN 3 ELSE 1

\* The issuer prefix, on the draws it takes.
CardPrefix(card_type, tape) ==
    IF card_type \in VisaTypes THEN randint(4000, 4999, tape[1])
    ELSE IF card_type \in MasterTypes
         THEN choice(<< randint(2221, 2720, tape[1]),
                        randint(5100, 5500, tape[2]) >>, tape[3])
         ELSE choice(<< 34, 37 >>, tape[1])

\* while len(number) < length - 1: number += choice(digits)
RECURSIVE CardFill(_, _, _)
CardFill(number, length, tape) ==
    IF Len(number) < length - 1
    THEN CardFill(number \o << choice(digits, Head(tape)) >>, length,
                  Tail(tape))
    ELSE number

Sum(seq) ==
    LET s[i \in 0 .. Len(seq)] == IF i = 0 THEN 0 ELSE s[i - 1] + seq[i]
    IN  s[Len(seq)]

\* regex.search(text).groups() for a regular expression of digit groups of
\* the given widths: the groups of the leftmost match, or << >> when there
\* is no run of digits that long (search returns None).
RECURSIVE Split(_, _)
Split(text, widths) ==
    IF widths = << >> THEN << >>
    ELSE << SubSeq(text, 1, Head(widths)) >>
             \o Split(SubSeq(text, Head(widths) + 1, Len(text)), Tail(widths))

RegexGroups(text, widths) ==
    LET total == Sum(widths)
        starts == { i \in 1 .. (Len(text) - total + 1) :
                       \A j \in i .. (i + total - 1) : IsDigit(text[j]) }
    IN  IF starts = { } THEN << >>
        ELSE LET i == CHOOSE x \in starts : \A y \in starts : x <= y
             IN  Split(SubSeq(text, i, Len(text)), widths)

\* " ".join(groups)
RECURSIVE Join(_)
Join(groups) ==
    IF Len(groups) = 0 THEN << >>
    ELSE IF Len(groups) = 1 THEN groups[1]
    ELSE groups[1] \o << " " >> \o Join(Tail(groups))

\* Faulty variant: the message does not hold the card type.
CardTypeMessage_NoValue(card_type) == << "Card type is not supported." >>

\* "Card type {} is not supported.".format(card_type)
CardTypeMessage(card_type) ==
    << "Card type ", card_type, " is not supported." >>

\* The number of draws credit_card_number takes for a supported card type.
CardDraws(card_type) ==
    PrefixDraws(card_type)
        + (CardLength(card_type) - 1 - Len(str(CardPrefix(card_type, << 0, 0, 0 >>))))

\* The digits of the number before it is split: prefix, filler, check digit.
CardDigits(card_type, tape) ==
    LET number == CardFill(str(CardPrefix(card_type, tape)),
                           CardLength(card_type),
                           SubSeq(tape, PrefixDraws(card_type) + 1, Len(tape)))
    IN  number \o luhn_checksum(number)

\* credit_card_number(card_type) for a supported card type.
credit_card_number(card_type, tape) ==
    Join(RegexGroups(CardDigits(card_type, tape), CardGroups(card_type)))

---------------------------------------------------------------------------
(* Personal: the derived-attribute store (age, child_count,                *)
(* work_experience).                                                       *)

\* The default bounds of age(minimum=16, maximum=66).
DefaultMinAge == 16

DefaultMaxAge == 66

\* The age below which child_count is 0.
AdultAge == 18

\* The default working_start_age of work_experience.
DefaultWorkStart == 22

\* The value _store['age'] is constructed with.
NoAge == 0

\* The bounds callers pass to age: the defaults, and narrow ranges around
\* 0 (one of them reaching below it), the default minimum and AdultAge.
AgeBounds ==
    { << DefaultMinAge, DefaultMaxAge >> }
        \cup { << lo, hi >> \in ({ -1, NoAge, DefaultMinAge, AdultAge }
                                    \X (-1 .. (AdultAge + MaxSpan))) :
                  lo <= hi /\ hi <= lo + MaxSpan }

\* The working_start_age values callers pass.
WorkStarts == { 10, DefaultWorkStart, 70 }

\* Personal.__init__ for the instances 1..n: the store of each holds NoAge.
PersonalStart(n) ==
    /\ store = [p \in 1 .. n |-> [age |-> NoAge]]
    /\ ageSet = [p \in 1 .. n |-> FALSE]
    /\ pCall = [op |-> "none", inst |-> 0, args |-> << >>, ret |-> 0,
                pre |-> NoAge, ageBefore |-> FALSE, ageCalls |-> 0,
                ageBounds |-> << >>]

\* The record of a call: what it was, what it returned, the stored age and
\* the history before it, and the invocations of age it made.
CallRecord(p, op, args, ret, ageCalls, ageBounds) ==
    [op |-> op, inst |-> p, args |-> args, ret |-> ret,
     pre |-> store[p].age, ageBefore |-> ageSet[p],
     ageCalls |-> ageCalls, ageBounds |-> ageBounds]

\* Faulty variant: age returns the drawn value without storing it.
Age_NoStore(p, minimum, maximum) ==
    \E r \in Raw(maximum - minimum + 1) :
        LET a == randint(minimum, maximum, r)
        IN  /\ store' = store
            /\ ageSet' = [ageSet EXCEPT ![p] = TRUE]
            /\ pCall' = CallRecord(p, "age", << minimum, maximum >>, a, 1,
                                   << minimum, maximum >>)

\* Faulty variant: one _store dictionary is shared by all the instances.
Age_SharedStore(p, minimum, maximum) ==
    \E r \in Raw(maximum - minimum + 1) :
        LET a == randint(minimum, maximum, r)
        IN  /\ store' = [q \in DOMAIN store |-> [age |-> a]]
            /\ ageSet' = [ageSet EXCEPT ![p] = TRUE]
            /\ pCall' = CallRecord(p, "age", << minimum, maximum >>, a, 1,
                                   << minimum, maximum >>)

\* age(minimum, maximum): a = randint(minimum, maximum); the store takes a.
Age(p, minimum, maximum) ==
    \E r \in Raw(maximum - minimum + 1) :
        LET a == randint(minimum, maximum, r)
        IN  /\ store' = [store EXCEPT ![p].age = a]
            /\ ageSet' = [ageSet EXCEPT ![p] = TRUE]
            /\ pCall' = CallRecord(p, "age", << minimum, maximum >>, a, 1,
                                   << minimum, maximum >>)

\* "if a == 0": the test that makes a dependent accessor call age().
NeedsAge(a) == a = NoAge

\* The raw draws of the age() a dependent accessor may call: none is drawn
\* when the stored age is used.
AgeDraws(p) ==
    IF NeedsAge(store[p].age)
    THEN Raw(DefaultMaxAge - DefaultMinAge + 1)
    ELSE { 0 }

\* a = self._store['age']; if a == 0: a = self.age()
AgeOrStored(p, r) ==
    IF NeedsAge(store[p].age)
    THEN randint(DefaultMinAge, DefaultMaxAge, r)
    ELSE store[p].age

\* Faulty variant: the age drawn for the dependent accessor is not stored.
AfterAgeOrStored_NoStore(p, r) ==
    /\ store' = store
    /\ ageSet' = [ageSet EXCEPT ![p] = @ \/ NeedsAge(store[p].age)]

\* The effect of the first three lines of a dependent accessor on the
\* store and on the history: age(), when called, stores what it returns.
AfterAgeOrStored(p, r) ==
    /\ store' = [store EXCEPT ![p].age = AgeOrStored(p, r)]
    /\ ageSet' = [ageSet EXCEPT ![p] = @ \/ NeedsAge(store[p].age)]

ImplicitCalls(p) == IF NeedsAge(store[p].age) THEN 1 ELSE 0

ImplicitBounds(p) ==
    IF NeedsAge(store[p].age)
    THEN << DefaultMinAge, DefaultMaxAge >>
    ELSE << >>

\* child_count(max_childs): 0 below AdultAge, else randint(0, max_childs).
ChildCount(p, max_childs) ==
    \E r \in AgeDraws(p), r2 \in Raw(max_childs + 1) :
        LET a == AgeOrStored(p, r)
            cc == IF a < AdultAge THEN 0 ELSE randint(0, max_childs, r2)
        IN  /\ AfterAgeOrStored(p, r)
            /\ pCall' = CallRecord(p, "child_count", << max_childs >>, cc,
                                   ImplicitCalls(p), ImplicitBounds(p))

Max(x, y) == IF x >= y THEN x ELSE y

\* work_experience(working_start_age): max(a - working_start_age, 0).
WorkExperience(p, working_start_age) ==
    \E r \in AgeDraws(p) :
        LET a == AgeOrStored(p, r)
        IN  /\ AfterAgeOrStored(p, r)
            /\ pCall' = CallRecord(p, "work_experience",
                                   << working_start_age >>,
                                   Max(a - working_start_age, 0),
                                   ImplicitCalls(p), ImplicitBounds(p))

---------------------------------------------------------------------------
(* Generic: the provider facade.                                           *)

\* The read-only properties of Generic and the class each constructs.
LazyClass ==
    [personal |-> "Personal", address |-> "Address", datetime |-> "Datetime",
     business |-> "Business", text |-> "Text", food |-> "Food",
     science |-> "Science", code |-> "Code"]

LazyNames == DOMAIN LazyClass

\* The instance attribute behind each property.
SlotOf ==
    [personal |-> "_personal", address |-> "_address",
     datetime |-> "_datetime", business |-> "_business", text |-> "_text",
     food |-> "_food", science |-> "_science", code |-> "_code"]

\* The attributes __init__ fills with instances, and their classes.
EagerClass ==
    [file |-> "File", numbers |-> "Numbers", development |-> "Development",
     hardware |-> "Hardware", network |-> "Network",
     clothing_sizes |-> "ClothingSizes", internet |-> "Internet",
     transport |-> "Transport", path |-> "Path"]

\* The classes whose __init__ loads a locale bundle: pull(file, locale).
PullingClasses ==
    { "Personal", "Address", "Datetime", "Business", "Text", "Food",
      "Science" }

\* The file each of them pulls.
BundleFile ==
    [Personal |-> "personal.json", Address |-> "address.json",
     Datetime |-> "datetime.json", Business |-> "business.json",
     Text |-> "text.json", Food |-> "food.json", Science |-> "science.json"]

\* The locales a facade is configured with; pull has a bundle for the
\* first two and raises for the third.
Locales == { "en", "ru", "xx" }

SupportedLocales == { "en", "ru" }

\* pull(file, locale) raises (no bundle for the locale).
PullFails(loc) == loc \notin SupportedLocales

ClassValue(c) == [kind |-> "class", cls |-> c, serial |-> 0, locale |-> ""]

\* The serial-th instance of class c, constructed with the locale loc
\* ("" when the constructor took none).
InstanceValue(c, serial, loc) ==
    [kind |-> "instance", cls |-> c, serial |-> serial, locale |-> loc]

\* callable(v): classes are; no provider instance defines __call__.
Callable(v) == v.kind = "class"

\* The values handed to add_provider. A class is described by its
\* __name__, its Meta attribute ("absent", a "class" or an "object" that is
\* no class), whether that Meta has a name attribute and its value, and
\* whether the constructor needs arguments.
Provider(isClass, name, meta, metaHasName, metaName, needsArgs) ==
    [isClass |-> isClass, name |-> name, meta |-> meta,
     metaHasName |-> metaHasName, metaName |-> metaName,
     needsArgs |-> needsArgs]

\* Two classes without Meta whose names lowercase alike, a class whose
\* Meta names it like them, a Meta without name, a Meta that is no class,
\* the library's Personal and Code, and two values that are no classes.
ProviderInputs ==
    { Provider(TRUE, "Foo", "absent", FALSE, "", FALSE),
      Provider(TRUE, "FOO", "absent", FALSE, "", FALSE),
      Provider(TRUE, "Bar", "class", TRUE, "foo", FALSE),
      Provider(TRUE, "Baz", "class", FALSE, "", FALSE),
      Provider(TRUE, "Qux", "object", TRUE, "foo", FALSE),
      Provider(TRUE, "Personal", "absent", FALSE, "", FALSE),
      Provider(TRUE, "Code", "absent", FALSE, "", TRUE),
      Provider(FALSE, "an_instance", "absent", FALSE, "", FALSE),
      Provider(FALSE, "a_string", "absent", FALSE, "", FALSE) }

NoProvider == Provider(FALSE, "", "absent", FALSE, "", FALSE)

\* str.lower() on the class names above.
Lower ==
    [Foo |-> "foo", FOO |-> "foo", Bar |-> "bar", Baz |-> "baz",
     Qux |-> "qux", Personal |-> "personal", Code |-> "code",
     an_instance |-> "an_instance", a_string |-> "a_string"]

\* The locale a provider class takes when constructed without arguments.
DefaultLocale(c) == IF c \in PullingClasses THEN "en" ELSE ""

Classes ==
    { LazyClass[n] : n \in LazyNames }
        \cup { EagerClass[n] : n \in DOMAIN EagerClass }
        \cup { c.name : c \in ProviderInputs }

NoValue == [kind |-> "none", cls |-> "", serial |-> 0, locale |-> ""]

NoGenericCall ==
    [op |-> "none", cls |-> NoProvider, arg |-> "", name |-> "",
     ret |-> NoValue, err |-> "none",
     pre |-> << >>, preBuilt |-> << >>, preLocale |-> "",
     preLoaded |-> { }]

\* The instances of class c that exist when Generic.__init__ returns: one
\* of each class it constructs, and the Personal('en') that Path.__init__
\* constructs.
BuiltAtStart(c) ==
    IF c \in { EagerClass[n] : n \in DOMAIN EagerClass } \cup { "Personal" }
    THEN 1 ELSE 0

\* The bundles pulled when Generic.__init__ returns: Path.__init__
\* constructs Personal('en'), whose __init__ pulls personal.json.
LoadedAtStart == { << BundleFile["Personal"], "en" >> }

\* The bundle the constructor of class c pulls for the locale loc.
Pulls(c, loc) ==
    IF c \in PullingClasses THEN { << BundleFile[c], loc >> } ELSE { }

\* Generic.__init__(locale): the lazy slots hold the classes, the other
\* providers are constructed.
GenericStart ==
    /\ locale \in Locales
    /\ dict = [a \in { SlotOf[n] : n \in LazyNames } \cup DOMAIN EagerClass |->
                  IF a \in DOMAIN EagerClass
                  THEN InstanceValue(EagerClass[a], 1, "")
                  ELSE ClassValue(LazyClass[CHOOSE n \in LazyNames : SlotOf[n] = a])]
    /\ built = [c \in Classes |-> BuiltAtStart(c)]
    /\ latest = << >>
    /\ registrations = 0
    /\ loaded = LoadedAtStart
    /\ gCall = NoGenericCall

\* The dictionary d with the entry name set to v.
Put(d, name, v) ==
    [a \in DOMAIN d \cup { name } |-> IF a = name THEN v ELSE d[a]]

\* Faulty variant: every value passes for a class.
IsClass_Any(cls) == TRUE

\* inspect.isclass(cls)
IsClass(cls) == cls.isClass

\* The name add_provider registers a class under: '' unless Meta is a
\* class with a name attribute; the else branch belongs to the outer if.
ProviderName(cls) ==
    IF cls.meta # "absent"
    THEN IF cls.meta = "class" /\ cls.metaHasName
         THEN cls.metaName
         ELSE ""
    ELSE Lower[cls.name]

\* Faulty variant: an attribute that exists is left as it is.
SetAttr_KeepFirst(d, name, v) == IF name \in DOMAIN d THEN d ELSE Put(d, name, v)

\* setattr(self, name, v) for a name that is no property of Generic.
SetAttr(d, name, v) == Put(d, name, v)

\* The record of a call: the value or accessor it was given, the
\* attribute name it worked on, what it returned or raised, and the
\* attributes before it.
GenericCall(op, cls, arg, name, ret, err) ==
    [op |-> op, cls |-> cls, arg |-> arg, name |-> name, ret |-> ret,
     err |-> err, pre |-> dict, preBuilt |-> built, preLocale |-> locale,
     preLoaded |-> loaded]

\* add_provider(cls)
AddProvider(cls) ==
    /\ registrations < MaxRegistrations
    /\ registrations' = registrations + 1
    /\ UNCHANGED locale
    /\ IF ~IsClass(cls)
       THEN \* raise TypeError("Provider must be a class")
            /\ gCall' = GenericCall("add_provider", cls, cls.name, "", NoValue,
                                    "TypeError")
            /\ UNCHANGED <<dict, built, latest, loaded>>
       ELSE LET name == ProviderName(cls)
                inst == InstanceValue(cls.name, built[cls.name] + 1,
                                      DefaultLocale(cls.name))
            IN  IF cls.needsArgs
                THEN \* cls() raises: a required argument is missing
                     /\ gCall' = GenericCall("add_provider", cls, cls.name, name,
                                             NoValue, "TypeError")
                     /\ UNCHANGED <<dict, built, latest, loaded>>
                ELSE /\ built' = [built EXCEPT ![cls.name] = @ + 1]
                     /\ loaded' = loaded \cup Pulls(cls.name,
                                                     DefaultLocale(cls.name))
                     /\ IF name \in LazyNames
                        THEN \* a property without a setter
                             /\ gCall' = GenericCall("add_provider", cls, cls.name,
                                                     name, NoValue,
                                                     "AttributeError")
                             /\ UNCHANGED <<dict, latest>>
                        ELSE /\ dict' = SetAttr(dict, name, inst)
                             /\ latest' = Put(latest, name, inst)
                             /\ gCall' = GenericCall("add_provider", cls, cls.name,
                                                     name, inst, "none")

\* Faulty variant: the property constructs the provider and does not keep it.
Access_NoCache(n) ==
    LET v == dict[SlotOf[n]]
        inst == InstanceValue(v.cls, built[v.cls] + 1, locale)
    IN  /\ UNCHANGED <<locale, latest, registrations, dict>>
        /\ built' = [built EXCEPT ![v.cls] = @ + 1]
        /\ loaded' = loaded \cup Pulls(v.cls, locale)
        /\ gCall' = GenericCall("access", NoProvider, n, SlotOf[n], inst, "none")

\* The property n of Generic (personal, address, ..., code).
Access(n) ==
    LET v == dict[SlotOf[n]]
        inst == InstanceValue(v.cls, built[v.cls] + 1, locale)
    IN  /\ UNCHANGED <<locale, latest, registrations>>
        /\ IF Callable(v)
           THEN IF v.cls \in PullingClasses /\ PullFails(locale)
                THEN \* the constructor raises, the slot keeps the class
                     /\ gCall' = GenericCall("access", NoProvider, n, SlotOf[n], NoValue,
                                             "ResourceNotFound")
                     /\ UNCHANGED <<dict, built, loaded>>
                ELSE /\ dict' = SetAttr(dict, SlotOf[n], inst)
                     /\ built' = [built EXCEPT ![v.cls] = @ + 1]
                     /\ loaded' = loaded \cup Pulls(v.cls, locale)
                     /\ gCall' = GenericCall("access", NoProvider, n, SlotOf[n], inst,
                                             "none")
           ELSE /\ gCall' = GenericCall("access", NoProvider, n, SlotOf[n], v, "none")
                /\ UNCHANGED <<dict, built, loaded>>

---------------------------------------------------------------------------
(* elizabeth.utils.pull: the resource store (section 4.1 of the            *)
(* specification; the function's body is not among the sources). A call    *)
(* returns the cached bundle of its key or, on a miss, reads and parses    *)
(* the resource, caches the bundle under the key and returns it; other     *)
(* callers run between the steps of a miss.                                *)

Callers == 1 .. NumCallers

\* The files pulled in the model (that of Personal.__init__ and of
\* Personal.username), and the keys of the cache.
Files == { BundleFile["Personal"] }

Keys == Files \X Locales

\* A resource exists for the key.
HasResource(k) == ~PullFails(k[2])

\* The entries of a bundle, in the order the parser meets them.
BundleEntries == << "first", "second" >>

\* The bundle the resource of key k parses to: every entry holds the data
\* of that file and locale.
Resource(k) == [e \in Range(BundleEntries) |-> << k[1], k[2], e >>]

\* The first n entries of it.
Parsed(k, n) ==
    [e \in { BundleEntries[i] : i \in 1 .. n } |-> Resource(k)[e]]

NoBundle == Parsed(<< "", "" >>, 0)

\* A caller's change of the structure it holds: its first entry is replaced.
Changed(b) == [b EXCEPT ![BundleEntries[1]] = << "changed" >>]

ResourceStart ==
    /\ cache = << >>
    /\ pullPc = [c \in Callers |-> "idle"]
    /\ pullKey = [c \in Callers |-> << "", "" >>]
    /\ pullPart = [c \in Callers |-> NoBundle]
    /\ pullRet = [c \in Callers |-> NoBundle]
    /\ pullErr = [c \in Callers |-> "none"]
    /\ changed = [c \in Callers |-> FALSE]
    /\ afterChange = [c \in Callers |-> FALSE]

\* Faulty variant: a key without resource is answered with the bundle of
\* the default locale.
PullMissing_Fallback(c, k) ==
    /\ pullPc' = [pullPc EXCEPT ![c] = "done"]
    /\ pullRet' = [pullRet EXCEPT ![c] = Resource(<< k[1], "en" >>)]
    /\ pullErr' = [pullErr EXCEPT ![c] = "none"]
    /\ UNCHANGED cache

\* No resource exists for the key: ResourceNotFound, no other locale is
\* tried, the cache stays as it is.
PullMissing(c, k) ==
    /\ pullPc' = [pullPc EXCEPT ![c] = "done"]
    /\ pullRet' = [pullRet EXCEPT ![c] = NoBundle]
    /\ pullErr' = [pullErr EXCEPT ![c] = "ResourceNotFound"]
    /\ UNCHANGED cache

\* pull(file, locale) by caller c, up to the point where it returns the
\* cached bundle, raises, or starts to read the resource.
Pull(c, k) ==
    /\ pullPc[c] \in { "idle", "done" }
    /\ pullKey' = [pullKey EXCEPT ![c] = k]
    /\ pullPart' = [pullPart EXCEPT ![c] = NoBundle]
    /\ changed' = [changed EXCEPT ![c] = FALSE]
    /\ afterChange' = [afterChange EXCEPT ![c] =
                           \E d \in Callers \ { c } :
                               changed[d] /\ pullKey[d] = k]
    /\ IF k \in DOMAIN cache
       THEN /\ pullPc' = [pullPc EXCEPT ![c] = "done"]
            /\ pullRet' = [pullRet EXCEPT ![c] = cache[k]]
            /\ pullErr' = [pullErr EXCEPT ![c] = "none"]
            /\ UNCHANGED cache
       ELSE IF ~HasResource(k)
            THEN PullMissing(c, k)
            ELSE /\ pullPc' = [pullPc EXCEPT ![c] = "parsing"]
                 /\ pullRet' = [pullRet EXCEPT ![c] = NoBundle]
                 /\ pullErr' = [pullErr EXCEPT ![c] = "none"]
                 /\ UNCHANGED cache

\* Faulty variant: the entries are parsed into the cache itself.
PullParse_InPlace(c) ==
    LET n == Cardinality(DOMAIN pullPart[c])
    IN  /\ pullPc[c] = "parsing"
        /\ n < Len(BundleEntries)
        /\ pullPart' = [pullPart EXCEPT ![c] = Parsed(pullKey[c], n + 1)]
        /\ cache' = Put(cache, pullKey[c], Parsed(pullKey[c], n + 1))
        /\ UNCHANGED <<pullPc, pullKey, pullRet, pullErr, changed,
                       afterChange>>

\* The next entry of the resource is parsed into the caller's own result.
PullParse(c) ==
    LET n == Cardinality(DOMAIN pullPart[c])
    IN  /\ pullPc[c] = "parsing"
        /\ n < Len(BundleEntries)
        /\ pullPart' = [pullPart EXCEPT ![c] = Parsed(pullKey[c], n + 1)]
        /\ UNCHANGED <<cache, pullPc, pullKey, pullRet, pullErr, changed,
                       afterChange>>

\* The parsed bundle is cached under the key (replacing what another
\* caller cached meanwhile) and returned.
PullStore(c) ==
    /\ pullPc[c] = "parsing"
    /\ Cardinality(DOMAIN pullPart[c]) = Len(BundleEntries)
    /\ cache' = Put(cache, pullKey[c], pullPart[c])
    /\ pullRet' = [pullRet EXCEPT ![c] = pullPart[c]]
    /\ pullPc' = [pullPc EXCEPT ![c] = "done"]
    /\ UNCHANGED <<pullKey, pullPart, pullErr, changed, afterChange>>

\* Faulty variant: the structure a caller holds is the cached one.
Change_Shared(c) ==
    /\ pullPc[c] = "done" /\ pullErr[c] = "none" /\ ~changed[c]
    /\ pullRet' = [pullRet EXCEPT ![c] = Changed(@)]
    /\ changed' = [changed EXCEPT ![c] = TRUE]
    /\ cache' = Put(cache, pullKey[c], Changed(pullRet[c]))
    /\ UNCHANGED <<pullPc, pullKey, pullPart, pullErr, afterChange>>

\* Caller c changes the structure its call returned. A bundle is immutable
\* (section 3): the change is the caller's own, the cached bundle stays.
Change(c) ==
    /\ pullPc[c] = "done" /\ pullErr[c] = "none" /\ ~changed[c]
    /\ pullRet' = [pullRet EXCEPT ![c] = Changed(@)]
    /\ changed' = [changed EXCEPT ![c] = TRUE]
    /\ cache' = cache
    /\ UNCHANGED <<pullPc, pullKey, pullPart, pullErr, afterChange>>

---------------------------------------------------------------------------
(* elizabeth.decorators.romanized.                                         *)

\* The characters of the texts. A character outside ASCII is written by
\* its name: three Cyrillic letters of Russian, three of Ukrainian, and
\* one character (CJK) that no romanization alphabet holds.
RussianLetters == { "CYRILLIC_CHE", "cyrillic_te", "cyrillic_o" }

UkrainianLetters == { "CYRILLIC_U", "cyrillic_yi", "cyrillic_soft_sign" }

\* Digits, space, hyphen, underscore and ASCII punctuation.
CommonChars == { "4", " ", "-", "_", "!" }

NoEntryChar == "cjk_zhong"

\* intd.dec.ROMANIZATION_ALPHABETS: for Russian and for Ukrainian, the
\* Latin text of each letter; every common character maps to itself.
ROMANIZATION_ALPHABETS ==
    [ru |-> [c \in RussianLetters \cup CommonChars |->
                IF c = "CYRILLIC_CHE" THEN << "C", "h" >>
                ELSE IF c = "cyrillic_te" THEN << "t" >>
                ELSE IF c = "cyrillic_o" THEN << "o" >>
                ELSE << c >>],
     ua |-> [c \in UkrainianLetters \cup CommonChars |->
                IF c = "CYRILLIC_U" THEN << "U" >>
                ELSE IF c = "cyrillic_yi" THEN << "y", "i" >>
                ELSE IF c = "cyrillic_soft_sign" THEN << "'" >>
                ELSE << c >>]]

\* Faulty variant: a character without entry is kept as it is.
Transliterate_KeepOthers(alphabet, result) ==
    LET t[i \in 0 .. Len(result)] ==
            IF i = 0 THEN << >>
            ELSE t[i - 1] \o (IF result[i] \in DOMAIN alphabet
                              THEN alphabet[result[i]]
                              ELSE << result[i] >>)
    IN  t[Len(result)]

\* ''.join([alphabet[i] for i in result if i in alphabet])
Transliterate(alphabet, result) ==
    LET t[i \in 0 .. Len(result)] ==
            IF i = 0 THEN << >>
            ELSE t[i - 1] \o (IF result[i] \in DOMAIN alphabet
                              THEN alphabet[result[i]]
                              ELSE << >>)
    IN  t[Len(result)]

DecoratorStart ==
    /\ decorated = FALSE
    /\ wrapperCalls = 0
    /\ funcRuns = 0

\* romanized(locale)(func): returns the wrapper; nothing is looked up and
\* func is not called.
Decorate ==
    /\ codeOp = "romanized" /\ ~decorated
    /\ decorated' = TRUE
    /\ UNCHANGED <<wrapperCalls, funcRuns>>

\* Faulty variant: the wrapped function runs before the alphabet is
\* looked up.
Wrapper_FuncFirst(loc, text) ==
    /\ funcRuns' = funcRuns + 1
    /\ IF loc \in DOMAIN ROMANIZATION_ALPHABETS
       THEN /\ codeRet' = Transliterate(ROMANIZATION_ALPHABETS[loc], text)
            /\ codeErr' = "none"
            /\ codeMsg' = << >>
       ELSE /\ codeRet' = << >>
            /\ codeErr' = "UnsupportedLocale"
            /\ codeMsg' = << "Locale ", loc, " is not supported yet." >>

\* wrapper(*args, **kwargs) of a function decorated for locale that
\* returns text.
Wrapper(loc, text) ==
    IF loc \in DOMAIN ROMANIZATION_ALPHABETS
    THEN /\ funcRuns' = funcRuns + 1
         /\ codeRet' = Transliterate(ROMANIZATION_ALPHABETS[loc], text)
         /\ codeErr' = "none"
         /\ codeMsg' = << >>
    ELSE \* raise UnsupportedLocale before func is called
         /\ funcRuns' = funcRuns
         /\ codeRet' = << >>
         /\ codeErr' = "UnsupportedLocale"
         /\ codeMsg' = << "Locale ", loc, " is not supported yet." >>

---------------------------------------------------------------------------
(* Business.price.                                                         *)

\* intd.CURRENCY_SYMBOLS: the symbol of each locale that has one, and the
\* entry 'default'. A symbol outside ASCII is written by its name.
CURRENCY_SYMBOLS ==
    [en |-> << "$" >>, ru |-> << "RUBLE_SIGN" >>, default |-> << "$" >>]

\* '{0:.2f}'.format(price), the price given in thousandths: rounded to
\* the nearest hundredth (a tie goes to the even one), the integer part,
\* a point and two digits.
Fixed2(mills) ==
    LET q == mills \div 10
        r == mills % 10
        cents == IF r > 5 \/ (r = 5 /\ q % 2 = 1) THEN q + 1 ELSE q
    IN  str(cents \div 100) \o << "." >>
            \o << digits[((cents \div 10) % 10) + 1], digits[(cents % 10) + 1] >>

\* uniform(minimum, maximum), in thousandths; r is the raw draw
uniform(minimum, maximum, r) == minimum * 1000 + r

\* Faulty variant: the symbol of the locale is looked up without the test
\* for its presence.
price_NoDefault(loc, minimum, maximum, r) ==
    IF loc \in DOMAIN CURRENCY_SYMBOLS
    THEN [ret |-> Fixed2(uniform(minimum, maximum, r)) \o << " " >>
                    \o CURRENCY_SYMBOLS[loc],
          err |-> "none"]
    ELSE [ret |-> << >>, err |-> "KeyError"]

\* Business.price(minimum, maximum) of a provider of locale loc
price(loc, minimum, maximum, r) ==
    LET amount == Fixed2(uniform(minimum, maximum, r))
    IN  IF loc \in DOMAIN CURRENCY_SYMBOLS
        THEN [ret |-> amount \o << " " >> \o CURRENCY_SYMBOLS[loc],
              err |-> "none"]
        ELSE [ret |-> amount \o << " " >> \o CURRENCY_SYMBOLS["default"],
              err |-> "none"]

---------------------------------------------------------------------------
(* Numbers.primes.                                                         *)

\* [i for i in range(start, end) if i % 2], in increasing order
OddsOf(start, end) ==
    LET Odd(i) == i % 2 # 0
        all == [k \in 1 .. (IF end > start THEN end - start ELSE 0) |->
                    start + k - 1]
    IN  SelectSeq(all, Odd)

\* Numbers.primes(start, end): array.array('L', ...) of the odd numbers of
\* range(start, end); an item below 0 raises OverflowError (the items of
\* the ranges considered are far below the largest unsigned long).
primes(start, end) ==
    LET nums == OddsOf(start, end)
    IN  IF \E i \in DOMAIN nums : nums[i] < 0
        THEN [ret |-> << >>, err |-> "OverflowError"]
        ELSE [ret |-> nums, err |-> "none"]

---------------------------------------------------------------------------
(* Personal.telephone.                                                     *)

\* default = '+#-(###)-###-####'
DefaultTelephoneMask ==
    << "+", "#", "-", "(", "#", "#", "#", ")", "-", "#", "#", "#", "-",
       "#", "#", "#", "#" >>

\* The entry 'telephone_fmt' of a bundle that has one: a list of masks.
TelephoneFormats ==
    << << "#", "#", "-", "#" >>, << "(", "#", ")", " ", "#", "#" >> >>

\* self.data.get('telephone_fmt', default)
TelephoneMasks(has_fmt) ==
    IF has_fmt THEN TelephoneFormats ELSE DefaultTelephoneMask

\* The mask telephone expands: the one given, or choice(masks). On the
\* default, a string, choice returns one of its characters.
TelephoneMask(has_fmt, mask, r) ==
    IF mask # << >> THEN mask
    ELSE IF has_fmt THEN choice(TelephoneMasks(has_fmt), r)
    ELSE << choice(TelephoneMasks(has_fmt), r) >>

\* Personal.telephone(mask, placeholder) on a provider whose bundle has
\* (or has not) the entry 'telephone_fmt'
telephone(has_fmt, mask, placeholder, r, tape) ==
    custom_code(TelephoneMask(has_fmt, mask, r), "@", placeholder, tape)

---------------------------------------------------------------------------
(* Network.ip_v6.                                                          *)

hexdigits ==
    << "0", "1", "2", "3", "4", "5", "6", "7", "8", "9",
       "a", "b", "c", "d", "e", "f" >>

RECURSIVE hex(_)
\* "%x" % n
hex(n) ==
    IF n < 16 THEN << hexdigits[n + 1] >>
    ELSE hex(n \div 16) \o << hexdigits[(n % 16) + 1] >>

\* for _ in range(7)
RandomGroups == 7

\* 16 ** 4, the upper bound given to randint
GroupBound == 65536

RECURSIVE JoinWith(_, _)
\* sep.join(groups)
JoinWith(sep, groups) ==
    IF Len(groups) = 0 THEN << >>
    ELSE IF Len(groups) = 1 THEN groups[1]
    ELSE groups[1] \o << sep >> \o JoinWith(sep, Tail(groups))

\* Network.ip_v6(); tape holds the raw draws of the seven groups
ip_v6(tape) ==
    << "2", "0", "0", "1", ":" >>
        \o JoinWith(":", [i \in 1 .. RandomGroups |->
                              hex(randint(0, GroupBound, tape[i]))])

---------------------------------------------------------------------------
(* Structured.json.                                                        *)

\* The names of dir(provider) that do not start with '_' and are callable,
\* in the order of dir (sorted), for a Personal provider...
PersonalAttributes ==
    << "academic_degree", "age", "avatar", "bitcoin", "blood_type",
       "child_count", "cid", "credit_card_expiration_date",
       "credit_card_number", "cvv", "email", "favorite_movie",
       "favorite_music_genre", "full_name", "gender", "height",
       "identifier", "language", "level_of_english", "name", "nationality",
       "occupation", "password", "paypal", "political_views",
       "sexual_orientation", "surname", "telephone", "title", "university",
       "username", "views_on", "weight", "work_experience", "worldview" >>

\* ... and for a Hardware provider.
HardwareAttributes ==
    << "cpu", "cpu_codename", "cpu_frequency", "generation", "graphics",
       "manufacturer", "phone_model", "ram_size", "ram_type", "resolution",
       "screen_size", "ssd_or_hdd" >>

\* Faulty variant: the attributes are visited in the reverse order.
Attributes_Reversed(provider) ==
    LET attrs == IF provider = "personal" THEN PersonalAttributes
                 ELSE HardwareAttributes
    IN  [i \in DOMAIN attrs |-> attrs[Len(attrs) + 1 - i]]

\* for attribute_name in dir(provider): the names that are called
Attributes(provider) ==
    IF provider = "personal" THEN PersonalAttributes ELSE HardwareAttributes

\* The providers json knows, with their root elements
JsonProviders == [hardware |-> "computers", personal |-> "users"]

\* provider_name.lower() of the names given
JsonLower ==
    [personal |-> "personal", Personal |-> "personal",
     hardware |-> "hardware", address |-> "address"]

\* child_count(max_childs=5)
DefaultMaxChilds == 5

\* The value of an attribute the model does not look into
Generated == "generated"

NoElement == [a \in { } |-> Generated]

JsonIdle ==
    /\ jsonArgs = << "", 0 >>
    /\ jsonPc = "idle"
    /\ jsonPos = << 0, 0 >>
    /\ element = NoElement
    /\ records = << >>

\* json(provider_name, items) up to the loops: the provider is looked up
\* and constructed (the Personal provider is instance 1, new).
JsonStart ==
    /\ jsonPc = "called"
    /\ IF JsonLower[jsonArgs[1]] \notin DOMAIN JsonProviders
       THEN jsonPc' = "raised" /\ jsonPos' = jsonPos
       ELSE IF jsonArgs[2] = 0
       THEN jsonPc' = "returned" /\ jsonPos' = jsonPos
       ELSE jsonPc' = "attribute" /\ jsonPos' = << 1, 1 >>
    /\ UNCHANGED <<jsonArgs, element, records>>
    /\ UNCHANGED <<codeVars, personalVars, genericVars, resourceVars,
                   decoratorVars>>

\* element[attribute_name] = attribute(), and the end of the inner loop
JsonAttribute ==
    /\ jsonPc = "attribute"
    /\ LET provider == JsonLower[jsonArgs[1]]
           attrs == Attributes(provider)
           name == attrs[jsonPos[2]]
           called == provider = "personal" /\ name \in
                        { "age", "child_count", "work_experience" }
       IN  /\ IF provider = "personal" /\ name = "age"
              THEN Age(1, DefaultMinAge, DefaultMaxAge)
              ELSE IF provider = "personal" /\ name = "child_count"
              THEN ChildCount(1, DefaultMaxChilds)
              ELSE IF provider = "personal" /\ name = "work_experience"
              THEN WorkExperience(1, DefaultWorkStart)
              ELSE UNCHANGED personalVars
           /\ LET value == IF called THEN pCall'.ret ELSE Generated
                  filled == Put(element, name, value)
              IN  IF jsonPos[2] < Len(attrs)
                  THEN /\ element' = filled
                       /\ jsonPos' = << jsonPos[1], jsonPos[2] + 1 >>
                       /\ UNCHANGED <<records, jsonPc>>
                  ELSE \* data[root_element].append(element)
                       /\ records' = Append(records, filled)
                       /\ element' = NoElement
                       /\ IF jsonPos[1] < jsonArgs[2]
                          THEN /\ jsonPos' = << jsonPos[1] + 1, 1 >>
                               /\ jsonPc' = jsonPc
                          ELSE /\ jsonPos' = jsonPos
                               /\ jsonPc' = "returned"
    /\ UNCHANGED jsonArgs
    /\ UNCHANGED <<codeVars, genericVars, resourceVars, decoratorVars>>

---------------------------------------------------------------------------
(* The calls of Code and of the checksum: each run makes one call.         *)

\* Mask characters: both default placeholders, an overriding digit
\* placeholder, a separator, a literal letter and a literal digit.
MaskChars == { "@", "#", "*", "-", "A", "7" }

\* <<char, digit>> as callers pass them: the defaults, and the digit
\* placeholder overridden.
SymbolPairs == { << "@", "#" >>, << "@", "*" >> }

DefaultSymbols == << "@", "#" >>

\* The card types callers pass: every alias, and one that is none.
CardTypeInputs == VisaTypes \cup MasterTypes \cup AmexTypes \cup { "maestro" }

\* The raw draws explored for the digits of a card number.
CoarseDraws == { 0, 7 }

\* The fmt values callers pass to isbn and to ean: the two each knows and
\* one it does not.
IsbnFormats == { "isbn-10", "isbn-13", "isbn-11" }

EanFormats == { "ean-8", "ean-13", "ean-5" }

\* The locales functions are decorated for: two with a romanization
\* alphabet and one without.
RomanizedLocales == { "ru", "ua", "en" }

\* The characters of the texts the wrapped functions return.
TextChars ==
    { "CYRILLIC_CHE", "cyrillic_o", "cyrillic_yi", "4", "-", NoEntryChar }

\* The reference vector of the Luhn algorithm (check digit 3).
ReferenceVector == << "7", "9", "9", "2", "7", "3", "9", "8", "7", "1" >>

\* The strings handed to luhn_checksum: the short numeric strings, the
\* reference vector, and the short strings over digits, a letter and a
\* separator (the empty string among them).
LuhnInputs ==
    SeqsOf(DigitChars, 1, MaxDigits)
        \cup { ReferenceVector }
        \cup SeqsOf({ "0", "7", "A", "-" }, 0, MaxMalformed)

\* No call has returned or raised yet.
NotYetCalled ==
    /\ codeRet = << >>
    /\ codeErr = "none"
    /\ codeMsg = << >>
    /\ codeNum = << >>
    /\ codeDone = FALSE

NoCodeCall ==
    /\ codeOp = "none" /\ codeArg = << >> /\ codeSym = DefaultSymbols
    /\ NotYetCalled

CustomCodeCall ==
    /\ codeOp = "custom_code"
    /\ codeArg \in SeqsOf(MaskChars, 0, MaxMaskLen)
    /\ codeSym \in SymbolPairs
    /\ NotYetCalled

ChecksumCall ==
    /\ \/ /\ codeOp = "luhn_checksum"
          /\ codeArg \in LuhnInputs
       \/ /\ codeOp = "imei"
          /\ codeArg = << >>
       \/ /\ codeOp = "credit_card_number"
          /\ codeArg \in CardTypeInputs
    /\ codeSym = DefaultSymbols
    /\ NotYetCalled

\* A call of isbn on a Code instance of some locale (codeArg holds fmt and
\* the locale), or of ean (codeArg holds fmt).
FormatCall ==
    /\ \/ /\ codeOp = "isbn"
          /\ codeArg \in IsbnFormats \X Locales
       \/ /\ codeOp = "ean"
          /\ codeArg \in EanFormats \X { "" }
    /\ codeSym = DefaultSymbols
    /\ NotYetCalled

\* A function returning a text is decorated with romanized(locale)
\* (codeArg holds the locale and the text).
RomanizedCall ==
    /\ codeOp = "romanized"
    /\ codeArg \in RomanizedLocales \X SeqsOf(TextChars, 0, MaxTextLen)
    /\ codeSym = DefaultSymbols
    /\ NotYetCalled

\* The masks given to telephone; the empty one stands for no mask.
TelephoneMaskInputs ==
    { << >>, << "#", "#" >>, << "+", "*", " ", "#" >> }

\* A call of telephone (codeArg holds whether the bundle of the provider
\* has the entry 'telephone_fmt', and the mask; codeSym the placeholder).
TelephoneCall ==
    /\ codeOp = "telephone"
    /\ codeArg \in BOOLEAN \X TelephoneMaskInputs
    /\ codeSym \in SymbolPairs
    /\ NotYetCalled

\* The raw draws of the groups of ip_v6: the least, one of two digits,
\* the greatest of four digits and the greatest randint returns.
GroupDraws == { 0, 171, 65535, 65536 }

\* A call of ip_v6 (no argument).
IpV6Call ==
    /\ codeOp = "ip_v6"
    /\ codeArg = << >>
    /\ codeSym = DefaultSymbols
    /\ NotYetCalled

\* The provider names given to json.
JsonNames == { "personal", "Personal", "hardware", "address" }

\* A call of json.
JsonCall ==
    /\ jsonArgs \in JsonNames \X (0 .. MaxItems)
    /\ jsonPc = "called"
    /\ jsonPos = << 0, 0 >>
    /\ element = NoElement
    /\ records = << >>

\* The first values of the ranges of primes.
PrimeStarts == (0 - 3) .. 3

\* A call of primes (codeArg holds start and end, start < end).
PrimesCall ==
    /\ codeOp = "primes"
    /\ \E start \in PrimeStarts, end \in PrimeStarts \cup (0 .. MaxEnd) :
            start < end /\ codeArg = << start, end >>
    /\ codeSym = DefaultSymbols
    /\ NotYetCalled

\* The lower ends of the price ranges.
PriceMinimums == { 0, 10 }

\* The locales of the Business providers: "xx" has no currency symbol.
PriceLocales == { "en", "ru", "xx" }

\* A call of price on a Business provider (codeArg holds its locale,
\* minimum and maximum).
PriceCall ==
    /\ codeOp = "price"
    /\ \E loc \in PriceLocales, minimum \in PriceMinimums,
            d \in 0 .. MaxPriceSpan :
            codeArg = << loc, minimum, minimum + d >>
    /\ codeSym = DefaultSymbols
    /\ NotYetCalled

\* Faulty variant: one draw is made and used at every placeholder.
Tapes_OneDraw(n) ==
    { [i \in 1 .. n |-> r] : r \in Raw(Len(ascii_uppercase)) }

\* The draws of one call of custom_code that meets n placeholders: each
\* placeholder makes a draw of its own.
Tapes(n) == [1 .. n -> Raw(Len(ascii_uppercase))]

CustomCode ==
    /\ codeOp = "custom_code" /\ ~codeDone
    /\ \E tape \in Tapes(NumDraws(codeArg, codeSym[1], codeSym[2])) :
           codeRet' = custom_code(codeArg, codeSym[1], codeSym[2], tape)
    /\ codeDone' = TRUE
    /\ UNCHANGED <<codeOp, codeArg, codeSym, codeErr, codeMsg, codeNum>>
    /\ UNCHANGED <<personalVars, genericVars, resourceVars,
                   decoratorVars, jsonVars>>

\* luhn_checksum(codeArg): InvalidInput unless the argument is numeric.
LuhnChecksum ==
    /\ codeOp = "luhn_checksum" /\ ~codeDone
    /\ IF Numeric(codeArg)
       THEN codeRet' = luhn_checksum(codeArg) /\ codeErr' = "none"
       ELSE codeRet' = << >> /\ codeErr' = "InvalidInput"
    /\ codeDone' = TRUE
    /\ UNCHANGED <<codeOp, codeArg, codeSym, codeMsg, codeNum>>
    /\ UNCHANGED <<personalVars, genericVars, resourceVars,
                   decoratorVars, jsonVars>>

Imei ==
    /\ codeOp = "imei" /\ ~codeDone
    /\ \E tape \in [1 .. (1 + Len(ImeiMask)) -> SparseDraws] :
           codeRet' = imei(tape)
    /\ codeDone' = TRUE
    /\ UNCHANGED <<codeOp, codeArg, codeSym, codeErr, codeMsg, codeNum>>
    /\ UNCHANGED <<personalVars, genericVars, resourceVars,
                   decoratorVars, jsonVars>>

CreditCardNumber ==
    /\ codeOp = "credit_card_number" /\ ~codeDone
    /\ IF codeArg \in VisaTypes \cup MasterTypes \cup AmexTypes
       THEN \E tape \in [1 .. CardDraws(codeArg) -> CoarseDraws] :
                LET number == CardDigits(codeArg, tape)
                    groups == RegexGroups(number, CardGroups(codeArg))
                IN  /\ codeNum' = number
                    /\ IF groups = << >>
                       THEN \* search returns None
                            /\ codeRet' = << >>
                            /\ codeErr' = "AttributeError"
                            /\ codeMsg' = << "'NoneType' object has no attribute 'groups'" >>
                       ELSE /\ codeRet' = Join(groups)
                            /\ codeErr' = "none"
                            /\ codeMsg' = << >>
       ELSE /\ codeRet' = << >>
            /\ codeNum' = << >>
            /\ codeErr' = "NotImplementedError"
            /\ codeMsg' = CardTypeMessage(codeArg)
    /\ codeDone' = TRUE
    /\ UNCHANGED <<codeOp, codeArg, codeSym>>
    /\ UNCHANGED <<personalVars, genericVars, resourceVars,
                   decoratorVars, jsonVars>>

Isbn ==
    /\ codeOp = "isbn" /\ ~codeDone
    /\ \E tape \in [1 .. NumDraws(IsbnMask(codeArg[1], codeArg[2]), "@", "#")
                        -> CoarseDraws] :
           codeRet' = isbn(codeArg[1], codeArg[2], tape)
    /\ codeDone' = TRUE
    /\ UNCHANGED <<codeOp, codeArg, codeSym, codeErr, codeMsg, codeNum>>
    /\ UNCHANGED <<personalVars, genericVars, resourceVars,
                   decoratorVars, jsonVars>>

Ean ==
    /\ codeOp = "ean" /\ ~codeDone
    /\ \E tape \in [1 .. NumDraws(EanMask(codeArg[1]), "@", "#")
                        -> CoarseDraws] :
           codeRet' = ean(codeArg[1], tape)
    /\ codeDone' = TRUE
    /\ UNCHANGED <<codeOp, codeArg, codeSym, codeErr, codeMsg, codeNum>>
    /\ UNCHANGED <<personalVars, genericVars, resourceVars,
                   decoratorVars, jsonVars>>

Price ==
    /\ codeOp = "price" /\ ~codeDone
    /\ \E r \in 0 .. (codeArg[3] - codeArg[2]) * 1000 :
           LET out == price(codeArg[1], codeArg[2], codeArg[3], r)
           IN  codeRet' = out.ret /\ codeErr' = out.err
    /\ codeDone' = TRUE
    /\ UNCHANGED <<codeOp, codeArg, codeSym, codeMsg, codeNum>>
    /\ UNCHANGED <<personalVars, genericVars, resourceVars,
                   decoratorVars, jsonVars>>

Primes ==
    /\ codeOp = "primes" /\ ~codeDone
    /\ LET out == primes(codeArg[1], codeArg[2])
       IN  codeRet' = out.ret /\ codeErr' = out.err
    /\ codeDone' = TRUE
    /\ UNCHANGED <<codeOp, codeArg, codeSym, codeMsg, codeNum>>
    /\ UNCHANGED <<personalVars, genericVars, resourceVars,
                   decoratorVars, jsonVars>>

Telephone ==
    /\ codeOp = "telephone" /\ ~codeDone
    /\ \E r \in Raw(Len(TelephoneMasks(codeArg[1]))) :
           LET mask == TelephoneMask(codeArg[1], codeArg[2], r)
           IN  \E tape \in [1 .. NumDraws(mask, "@", codeSym[2])
                                -> Raw(Len(digits))] :
                   codeRet' = telephone(codeArg[1], codeArg[2], codeSym[2],
                                        r, tape)
    /\ codeDone' = TRUE
    /\ UNCHANGED <<codeOp, codeArg, codeSym, codeErr, codeMsg, codeNum>>
    /\ UNCHANGED <<personalVars, genericVars, resourceVars,
                   decoratorVars, jsonVars>>

IpV6 ==
    /\ codeOp = "ip_v6" /\ ~codeDone
    /\ \E tape \in [1 .. RandomGroups -> GroupDraws] :
           codeRet' = ip_v6(tape)
    /\ codeDone' = TRUE
    /\ UNCHANGED <<codeOp, codeArg, codeSym, codeErr, codeMsg, codeNum>>
    /\ UNCHANGED <<personalVars, genericVars, resourceVars,
                   decoratorVars, jsonVars>>

DecorateStep ==
    /\ Decorate
    /\ UNCHANGED <<codeVars, personalVars, genericVars, resourceVars,
                   jsonVars>>

WrapperCall ==
    /\ codeOp = "romanized" /\ decorated
    /\ wrapperCalls < MaxWrapperCalls
    /\ wrapperCalls' = wrapperCalls + 1
    /\ Wrapper(codeArg[1], codeArg[2])
    /\ codeDone' = TRUE
    /\ UNCHANGED <<codeOp, codeArg, codeSym, codeNum, decorated>>
    /\ UNCHANGED <<personalVars, genericVars, resourceVars, jsonVars>>

AgeCall ==
    /\ \E p \in DOMAIN store, b \in AgeBounds : Age(p, b[1], b[2])
    /\ UNCHANGED <<codeVars, genericVars, resourceVars,
                   decoratorVars, jsonVars>>

ChildCountCall ==
    /\ \E p \in DOMAIN store, m \in 0 .. MaxChilds : ChildCount(p, m)
    /\ UNCHANGED <<codeVars, genericVars, resourceVars,
                   decoratorVars, jsonVars>>

WorkExperienceCall ==
    /\ \E p \in DOMAIN store, w \in WorkStarts : WorkExperience(p, w)
    /\ UNCHANGED <<codeVars, genericVars, resourceVars,
                   decoratorVars, jsonVars>>

AddProviderCall ==
    /\ \E cls \in ProviderInputs : AddProvider(cls)
    /\ UNCHANGED <<codeVars, personalVars, resourceVars,
                   decoratorVars, jsonVars>>

AccessCall ==
    /\ \E n \in LazyNames : Access(n)
    /\ UNCHANGED <<codeVars, personalVars, resourceVars,
                   decoratorVars, jsonVars>>

PullCall ==
    /\ \E c \in Callers, k \in Keys : Pull(c, k)
    /\ UNCHANGED <<codeVars, personalVars, genericVars, decoratorVars, jsonVars>>

PullParseStep ==
    /\ \E c \in Callers : PullParse(c)
    /\ UNCHANGED <<codeVars, personalVars, genericVars, decoratorVars, jsonVars>>

PullStoreStep ==
    /\ \E c \in Callers : PullStore(c)
    /\ UNCHANGED <<codeVars, personalVars, genericVars, decoratorVars, jsonVars>>

ChangeStep ==
    /\ \E c \in Callers : Change(c)
    /\ UNCHANGED <<codeVars, personalVars, genericVars, decoratorVars, jsonVars>>

---------------------------------------------------------------------------
(* The program: one Personal instance, one Generic instance, the callers   *)
(* of pull, and one call of a static generator.                            *)

Init ==
    /\ \/ /\ \/ CustomCodeCall \/ ChecksumCall \/ FormatCall
             \/ RomanizedCall \/ PriceCall \/ PrimesCall \/ TelephoneCall
             \/ IpV6Call
          /\ JsonIdle
       \/ NoCodeCall /\ JsonCall
    /\ PersonalStart(1)
    /\ GenericStart
    /\ ResourceStart /\ DecoratorStart

Next ==
    \/ CustomCode
    \/ LuhnChecksum
    \/ Imei
    \/ CreditCardNumber
    \/ Isbn
    \/ Ean
    \/ AgeCall
    \/ ChildCountCall
    \/ WorkExperienceCall
    \/ AddProviderCall
    \/ AccessCall
    \/ PullCall
    \/ PullParseStep
    \/ PullStoreStep
    \/ ChangeStep
    \/ DecorateStep
    \/ WrapperCall
    \/ Price
    \/ Primes
    \/ Telephone
    \/ IpV6
    \/ JsonStart
    \/ JsonAttribute

Spec == Init /\ [][Next]_vars

(* The components share no state; each is checked on its own calls, the    *)
(* others staying as constructed.                                          *)

NextCode == CustomCode

NextLuhn == LuhnChecksum \/ Imei \/ CreditCardNumber

NextChecksum == LuhnChecksum

NextCard == CreditCardNumber

NextFormat == Isbn \/ Ean

NextRomanized == DecorateStep \/ WrapperCall

NextPrice == Price

NextPrimes == Primes

NextTelephone == Telephone

NextNetwork == IpV6

NextPersonal == AgeCall \/ ChildCountCall \/ WorkExperienceCall

NextRegistry == AddProviderCall

NextLazy == AccessCall

NextStore == PullCall \/ PullParseStep \/ PullStoreStep \/ ChangeStep

\* A facade configured with the default locale of the providers.
GenericIdle == GenericStart /\ locale = "en"

InitCode ==
    CustomCodeCall /\ PersonalStart(1) /\ GenericIdle /\ ResourceStart /\ DecoratorStart
    /\ JsonIdle

InitLuhn ==
    ChecksumCall /\ PersonalStart(1) /\ GenericIdle /\ ResourceStart /\ DecoratorStart
    /\ JsonIdle

\* The runs that call luhn_checksum itself.
InitChecksum ==
    /\ ChecksumCall /\ codeOp = "luhn_checksum"
    /\ PersonalStart(1) /\ GenericIdle /\ ResourceStart /\ DecoratorStart
    /\ JsonIdle

\* The runs that call credit_card_number.
InitCard ==
    /\ ChecksumCall /\ codeOp = "credit_card_number"
    /\ PersonalStart(1) /\ GenericIdle /\ ResourceStart /\ DecoratorStart
    /\ JsonIdle

InitFormat ==
    FormatCall /\ PersonalStart(1) /\ GenericIdle /\ ResourceStart /\ DecoratorStart
    /\ JsonIdle

InitRomanized ==
    /\ RomanizedCall
    /\ PersonalStart(1) /\ GenericIdle /\ ResourceStart /\ DecoratorStart
    /\ JsonIdle

InitPrice ==
    PriceCall /\ PersonalStart(1) /\ GenericIdle /\ ResourceStart /\ DecoratorStart
    /\ JsonIdle

InitPrimes ==
    PrimesCall /\ PersonalStart(1) /\ GenericIdle /\ ResourceStart /\ DecoratorStart
    /\ JsonIdle

InitTelephone ==
    /\ TelephoneCall
    /\ PersonalStart(1) /\ GenericIdle /\ ResourceStart /\ DecoratorStart
    /\ JsonIdle

InitNetwork ==
    IpV6Call /\ PersonalStart(1) /\ GenericIdle /\ ResourceStart /\ DecoratorStart
    /\ JsonIdle

InitJson ==
    /\ NoCodeCall /\ PersonalStart(1) /\ GenericIdle /\ ResourceStart
    /\ DecoratorStart /\ JsonCall

InitPersonal ==
    NoCodeCall /\ PersonalStart(1) /\ GenericIdle /\ ResourceStart /\ DecoratorStart
    /\ JsonIdle

InitGeneric ==
    NoCodeCall /\ PersonalStart(1) /\ GenericStart /\ ResourceStart /\ DecoratorStart
    /\ JsonIdle

InitStore ==
    NoCodeCall /\ PersonalStart(1) /\ GenericIdle /\ ResourceStart /\ DecoratorStart
    /\ JsonIdle

SpecCode == InitCode /\ [][NextCode]_vars

SpecLuhn == InitLuhn /\ [][NextLuhn]_vars

SpecChecksum == InitChecksum /\ [][NextChecksum]_vars

SpecCard == InitCard /\ [][NextCard]_vars

SpecFormat == InitFormat /\ [][NextFormat]_vars

SpecRomanized == InitRomanized /\ [][NextRomanized]_vars

SpecPrice == InitPrice /\ [][NextPrice]_vars

SpecPrimes == InitPrimes /\ [][NextPrimes]_vars

SpecTelephone == InitTelephone /\ [][NextTelephone]_vars

SpecNetwork == InitNetwork /\ [][NextNetwork]_vars

SpecPersonal == InitPersonal /\ [][NextPersonal]_vars

\* Two Personal instances, called in any order. Of the ages randint can
\* draw, the runs explored are those whose draws fall on SampledAges: the
\* unset value, the least and the greatest default age, the ages around
\* AdultAge and one working age.
SampledAges ==
    { NoAge, DefaultMinAge, AdultAge - 1, AdultAge, 40, DefaultMaxAge }

AgesSampled == \A p \in DOMAIN store : store[p].age \in SampledAges

InitInstances ==
    NoCodeCall /\ PersonalStart(2) /\ GenericIdle /\ ResourceStart /\ DecoratorStart
    /\ JsonIdle

NextInstances ==
    \/ AgeCall /\ AgesSampled'
    \/ ChildCountCall /\ AgesSampled'
    \/ WorkExperienceCall /\ AgesSampled'

NextJson ==
    \/ JsonStart
    \/ JsonAttribute /\ AgesSampled'

SpecJson == InitJson /\ [][NextJson]_vars

SpecInstances == InitInstances /\ [][NextInstances]_vars

SpecRegistry == InitGeneric /\ [][NextRegistry]_vars

SpecLazy == InitGeneric /\ [][NextLazy]_vars

SpecStore == InitStore /\ [][NextStore]_vars

---------------------------------------------------------------------------
(* C1: with the default symbols, custom_code returns a string as long as   *)
(* the mask; a position holding '@' is an uppercase letter A-Z, a position *)
(* holding '#' is a decimal digit, any other position is the mask's own    *)
(* character (the empty mask and masks without placeholders included).     *)
C1_MaskShape ==
    (codeOp = "custom_code" /\ codeDone /\ codeSym = DefaultSymbols) =>
        /\ Len(codeRet) = Len(codeArg)
        /\ \A i \in DOMAIN codeArg :
               /\ i \in DOMAIN codeRet
               /\ codeArg[i] = "@" => IsUpper(codeRet[i])
               /\ codeArg[i] = "#" => IsDigit(codeRet[i])
               /\ codeArg[i] \notin { "@", "#" } => codeRet[i] = codeArg[i]

\* A mask of the greatest length holding both placeholders has been expanded.
C1_Witness ==
    /\ codeOp = "custom_code" /\ codeDone /\ codeSym = DefaultSymbols
    /\ Len(codeArg) = MaxMaskLen
    /\ "@" \in Range(codeArg)
    /\ "#" \in Range(codeArg)
    /\ codeRet # codeArg

(* C2: for every non-empty string S of decimal digits, S followed by       *)
(* luhn_checksum(S) passes Luhn validation; the number imei returns (its   *)
(* body followed by that digit) passes it too.                             *)
C2_LuhnAppendValid ==
    /\ (/\ codeOp = "luhn_checksum" /\ codeDone
        /\ codeArg # << >>
        /\ \A i \in DOMAIN codeArg : IsDigit(codeArg[i])) =>
           /\ Len(codeRet) = 1
           /\ LuhnValid(codeArg \o codeRet)
    /\ (codeOp = "imei" /\ codeDone) =>
           /\ Len(codeRet) = 8 + Len(ImeiMask) + 1
           /\ LuhnValid(codeRet)
    /\ (codeOp = "credit_card_number" /\ codeDone /\ codeErr = "none") =>
           LuhnValid(SelectSeq(codeRet, IsDigit))

\* imei has returned a number whose serial holds a digit that doubles past 9.
C2_Witness ==
    /\ codeOp = "imei" /\ codeDone
    /\ codeRet[9] = "9"
    /\ codeRet[14] = "5"

Dependents == { "child_count", "work_experience" }

(* C3: once age has been invoked on an instance (whatever its bounds, 0    *)
(* included), a call of child_count or work_experience leaves the stored   *)
(* age as it was and does not invoke age again.                            *)
C3_NoResample ==
    (pCall.op \in Dependents /\ pCall.ageBefore) =>
        /\ store[pCall.inst].age = pCall.pre
        /\ pCall.ageCalls = 0

(* C4: on a fresh instance, child_count or work_experience called before   *)
(* any age invokes age once with the default bounds; afterwards the stored *)
(* age lies in 16..66 and the value returned is computed from it.          *)
C4_ImplicitAge ==
    (pCall.op \in Dependents /\ ~pCall.ageBefore) =>
        LET a == store[pCall.inst].age
        IN  /\ pCall.ageCalls = 1
            /\ pCall.ageBounds = << 16, 66 >>
            /\ a \in 16 .. 66
            /\ pCall.op = "work_experience" =>
                   pCall.ret = Max(a - pCall.args[1], 0)
            /\ pCall.op = "child_count" =>
                   /\ pCall.ret \in 0 .. pCall.args[1]
                   /\ a < 18 => pCall.ret = 0

\* A first call of work_experience that found a working age.
C4_Witness ==
    /\ pCall.op = "work_experience" /\ ~pCall.ageBefore
    /\ pCall.ret > 0
    /\ store[pCall.inst].age = pCall.ret + pCall.args[1]

(* C5: work_experience(w) returns max(a - w, 0) for the stored age a       *)
(* (the age an earlier call stored, or on a fresh instance the age the     *)
(* call itself establishes) and is never negative.                         *)
C5_WorkExperience ==
    pCall.op = "work_experience" =>
        /\ pCall.ret >= 0
        /\ pCall.ageBefore => pCall.ret = Max(pCall.pre - pCall.args[1], 0)
        /\ ~pCall.ageBefore =>
               pCall.ret = Max(store[pCall.inst].age - pCall.args[1], 0)

(* C6: age(min, max) with min <= max returns v with min <= v <= max, and   *)
(* the stored age is v when the call returns (a later age call overwrites  *)
(* an earlier stored age).                                                 *)
C6_AgeStored ==
    pCall.op = "age" =>
        /\ pCall.args[1] <= pCall.ret
        /\ pCall.ret <= pCall.args[2]
        /\ store[pCall.inst].age = pCall.ret

\* An explicit age call has overwritten the age an earlier call stored.
C6_Witness ==
    /\ pCall.op = "age" /\ pCall.ageBefore
    /\ pCall.pre # NoAge
    /\ pCall.pre # pCall.ret
    /\ store[pCall.inst].age = pCall.ret
    /\ pCall.args[1] < pCall.args[2]

(* C7: a name registered with add_provider refers to the instance created  *)
(* by the latest successful registration under it: when two classes        *)
(* resolve to the same name, to a new instance of the second.              *)
C7_LastWins ==
    /\ \A n \in DOMAIN latest : n \in DOMAIN dict /\ dict[n] = latest[n]
    /\ (gCall.op = "add_provider" /\ gCall.err = "none") =>
           /\ dict[gCall.name] = gCall.ret
           /\ gCall.ret.kind = "instance"
           /\ gCall.ret.cls = gCall.cls.name
           /\ \A a \in DOMAIN gCall.pre : gCall.pre[a] # gCall.ret

\* A class has been registered under a name that held another class's
\* instance.
C7_Witness ==
    /\ gCall.op = "add_provider" /\ gCall.err = "none"
    /\ gCall.name \in DOMAIN gCall.pre
    /\ gCall.pre[gCall.name].cls # gCall.cls.name
    /\ dict[gCall.name].cls = gCall.cls.name

(* C8: add_provider given a value that is no class raises TypeError and    *)
(* leaves the locale, every attribute and every registered provider of the *)
(* Generic instance as they were.                                          *)
C8_NonClassRejected ==
    (gCall.op = "add_provider" /\ ~gCall.cls.isClass) =>
        /\ gCall.err = "TypeError"
        /\ dict = gCall.pre
        /\ built = gCall.preBuilt
        /\ locale = gCall.preLocale

\* A value that is no class has been rejected after a provider was
\* registered.
C8_Witness ==
    /\ gCall.op = "add_provider" /\ ~gCall.cls.isClass
    /\ gCall.err = "TypeError"
    /\ DOMAIN latest # { }
    /\ dict = gCall.pre

(* C9: add_provider registers a class under Meta.name when it declares a   *)
(* nested Meta class with a name attribute, and in every other case (no    *)
(* Meta, a Meta without name, a Meta that is no class) under the           *)
(* lowercased class name.                                                  *)
C9_NameResolution ==
    (gCall.op = "add_provider" /\ gCall.err = "none") =>
        gCall.name = IF gCall.cls.meta = "class" /\ gCall.cls.metaHasName
                     THEN gCall.cls.metaName
                     ELSE Lower[gCall.cls.name]

(* C10: an access of a lazy accessor that returns gives the instance kept  *)
(* in the accessor's slot, an instance of the accessor's class constructed *)
(* with the facade's locale; the first such access constructs it, every    *)
(* later one returns that same instance and constructs nothing.            *)
C10_LazyCached ==
    /\ \A n \in LazyNames :
           built[LazyClass[n]] =
               BuiltAtStart(LazyClass[n])
                   + (IF dict[SlotOf[n]].kind = "instance" THEN 1 ELSE 0)
    /\ (gCall.op = "access" /\ gCall.err = "none") =>
           LET before == gCall.pre[gCall.name]
               c == LazyClass[gCall.arg]
           IN  /\ gCall.ret = dict[gCall.name]
               /\ gCall.ret.kind = "instance"
               /\ gCall.ret.cls = c
               /\ gCall.ret.locale = locale
               /\ before.kind = "class" =>
                      /\ built[c] = gCall.preBuilt[c] + 1
                      /\ gCall.ret.serial = built[c]
               /\ before.kind = "instance" =>
                      /\ gCall.ret = before
                      /\ built = gCall.preBuilt

\* A later access of personal has returned the instance the first one
\* constructed, on a facade whose locale is not the providers' default.
C10_Witness ==
    /\ gCall.op = "access" /\ gCall.arg = "personal" /\ gCall.err = "none"
    /\ gCall.pre[gCall.name].kind = "instance"
    /\ gCall.ret = gCall.pre[gCall.name]
    /\ gCall.ret.locale = "ru"

\* The classes constructed with a locale.
LocaleAware == { LazyClass[n] : n \in LazyNames }

(* C11: when Generic(locale) has been constructed, no locale-aware         *)
(* provider has been constructed and no bundle has been loaded; a bundle   *)
(* is loaded only by the first access of a lazy accessor, which loads the  *)
(* bundle of the accessor's class for the facade's locale.                 *)
C11_NothingLoadedAtStart ==
    /\ gCall.op = "none" =>
           /\ loaded = { }
           /\ \A c \in LocaleAware : built[c] = 0
    /\ gCall.op = "access" =>
           /\ loaded \ gCall.preLoaded
                  \subseteq Pulls(LazyClass[gCall.arg], locale)
           /\ gCall.pre[gCall.name].kind = "instance" =>
                  loaded = gCall.preLoaded
    /\ loaded = UNION { Pulls(LazyClass[n], locale) :
                          n \in { m \in LazyNames :
                                     dict[SlotOf[m]].kind = "instance" } }

\* Caller c holds, as returned, the structure of a call that returned.
Holds(c) == pullPc[c] = "done" /\ pullErr[c] = "none" /\ ~changed[c]

(* C12: two loads of the same <<file, locale>> return equal structures,    *)
(* and a load made after a caller changed the structure an earlier load of *)
(* that key returned gives the bundle without the change.                  *)
C12_LoadsEqual ==
    /\ \A c, d \in Callers :
           (Holds(c) /\ Holds(d) /\ pullKey[c] = pullKey[d]) =>
               pullRet[c] = pullRet[d]
    /\ \A c \in Callers :
           (Holds(c) /\ afterChange[c]) =>
               /\ pullRet[c] = Resource(pullKey[c])
               /\ \A e \in DOMAIN pullRet[c] : pullRet[c][e] # << "changed" >>

\* A caller changed the structure it was given; afterwards another caller
\* loaded the same key from the cache and holds the unchanged bundle.
C12_Witness ==
    \E c, d \in Callers :
        /\ c # d
        /\ pullPc[c] = "done" /\ changed[c]
        /\ Holds(d) /\ afterChange[d]
        /\ pullKey[d] = pullKey[c]
        /\ pullPart[d] = NoBundle
        /\ pullRet[d] # pullRet[c]

(* C13: whatever the interleaving of the callers that load a key not yet   *)
(* cached, the cache holds under every key it has the complete bundle of   *)
(* that key, a caller that finished a first load finds its key cached, and *)
(* every structure a call returned is the complete bundle of its key,      *)
(* never a part of it or entries of another key.                           *)
C13_FirstLoadRace ==
    /\ \A k \in DOMAIN cache : k \in Keys /\ cache[k] = Resource(k)
    /\ \A c \in Callers :
           Holds(c) =>
               /\ pullRet[c] = Resource(pullKey[c])
               /\ pullKey[c] \in DOMAIN cache

\* Two callers both missed the same key, both parsed the resource and both
\* stored their bundle.
C13_Witness ==
    \E c, d \in Callers :
        /\ c # d
        /\ Holds(c) /\ Holds(d)
        /\ pullKey[c] = pullKey[d]
        /\ pullPart[c] = Resource(pullKey[c])
        /\ pullPart[d] = Resource(pullKey[d])

(* C14: a call of pull for a key without resource raises ResourceNotFound, *)
(* returns no bundle (not that of another locale either) and leaves the    *)
(* cache as it was.                                                        *)
C14_ResourceNotFound ==
    [][\A c \in Callers, k \in Keys :
           (Pull(c, k) /\ ~HasResource(k)) =>
               /\ pullPc'[c] = "done"
               /\ pullErr'[c] = "ResourceNotFound"
               /\ pullRet'[c] = NoBundle
               /\ cache' = cache
               /\ k \notin DOMAIN cache']_vars

\* A call for a locale without resource has raised while the cache held
\* the bundle of that file for another locale.
C14_Witness ==
    \E c \in Callers :
        /\ pullPc[c] = "done"
        /\ pullErr[c] = "ResourceNotFound"
        /\ pullRet[c] = NoBundle
        /\ << pullKey[c][1], "en" >> \in DOMAIN cache
        /\ pullKey[c] \notin DOMAIN cache

(* C15: luhn_checksum given the empty string or a string holding a         *)
(* character that is no decimal digit raises InvalidInput and returns no   *)
(* check digit.                                                            *)
C15_InvalidInput ==
    (/\ codeOp = "luhn_checksum" /\ codeDone
     /\ \/ codeArg = << >>
        \/ \E i \in DOMAIN codeArg : ~IsDigit(codeArg[i])) =>
        /\ codeErr = "InvalidInput"
        /\ codeRet = << >>

\* A string of a digit followed by a letter has been refused.
C15_Witness ==
    /\ codeOp = "luhn_checksum" /\ codeDone
    /\ codeArg = << "7", "A" >>
    /\ codeErr = "InvalidInput"
    /\ codeRet = << >>

\* A digit doubled the Luhn way: the sum of the decimal digits of 2 * d.
Doubled(d) == IF 2 * d > 9 THEN 2 * d - 9 ELSE 2 * d

(* C16: luhn_checksum("7992739871") returns "3"; for every numeric string  *)
(* the result is the one character of (10 - (sum mod 10)) mod 10, where    *)
(* sum adds the digits with the rightmost one and every second one to its  *)
(* left doubled.                                                           *)
C16_ReferenceVector ==
    /\ (codeOp = "luhn_checksum" /\ codeDone /\ codeArg = ReferenceVector) =>
           codeErr = "none" /\ codeRet = << "3" >>
    /\ (/\ codeOp = "luhn_checksum" /\ codeDone
        /\ codeArg # << >>
        /\ \A i \in DOMAIN codeArg : IsDigit(codeArg[i])) =>
           LET n == Len(codeArg)
               sum == Sum([i \in 1 .. n |->
                              IF (n - i) % 2 = 0
                              THEN Doubled(int(codeArg[i]))
                              ELSE int(codeArg[i])])
           IN  /\ codeErr = "none"
               /\ Len(codeRet) = 1
               /\ codeRet = << digits[((10 - (sum % 10)) % 10) + 1] >>

\* The check digit of the reference vector has been computed.
C16_Witness ==
    /\ codeOp = "luhn_checksum" /\ codeDone
    /\ codeArg = ReferenceVector
    /\ codeRet = << "3" >>

SupportedCardTypes == VisaTypes \cup MasterTypes \cup AmexTypes

(* C17: for every supported card type credit_card_number builds 16 digits  *)
(* (15 for the American Express types), the last of them the Luhn check    *)
(* digit of the others, and returns all of them in groups separated by one *)
(* space: four groups of 4 digits, for American Express groups of 4, 6 and *)
(* 5 digits.                                                               *)
C17_CardShape ==
    (/\ codeOp = "credit_card_number" /\ codeDone
     /\ codeArg \in SupportedCardTypes) =>
        LET amex == codeArg \in { "american_express", "amex", "ax", "a" }
            spaces == IF amex THEN { 5, 12 } ELSE { 5, 10, 15 }
        IN  /\ codeErr = "none"
            /\ Len(codeNum) = (IF amex THEN 15 ELSE 16)
            /\ \A i \in DOMAIN codeNum : IsDigit(codeNum[i])
            /\ LuhnValid(codeNum)
            /\ Len(codeRet) = Len(codeNum) + Cardinality(spaces)
            /\ \A i \in DOMAIN codeRet :
                   IF i \in spaces THEN codeRet[i] = " "
                   ELSE IsDigit(codeRet[i])
            /\ SelectSeq(codeRet, IsDigit) = codeNum

\* An American Express number has been returned in its three groups.
C17_Witness ==
    /\ codeOp = "credit_card_number" /\ codeDone
    /\ codeArg = "amex"
    /\ codeErr = "none"
    /\ Len(codeRet) = 17
    /\ codeRet[5] = " " /\ codeRet[12] = " "
    /\ codeRet[1] = "3"

(* C18: credit_card_number given a card type that is none of the aliases   *)
(* raises an error whose message holds the card type given, and returns no *)
(* number.                                                                 *)
C18_UnsupportedCardType ==
    (/\ codeOp = "credit_card_number" /\ codeDone
     /\ codeArg \notin SupportedCardTypes) =>
        /\ codeErr # "none"
        /\ codeArg \in Range(codeMsg)
        /\ codeRet = << >>
        /\ codeNum = << >>

\* The card type maestro has been refused.
C18_Witness ==
    /\ codeOp = "credit_card_number" /\ codeDone
    /\ codeArg = "maestro"
    /\ codeErr = "NotImplementedError"
    /\ codeMsg = << "Card type ", "maestro", " is not supported." >>

\* The fmt values isbn and ean know.
KnownFormats ==
    [isbn |-> { "isbn-10", "isbn-13" }, ean |-> { "ean-8", "ean-13" }]

(* C19: isbn and ean given a fmt that is none of the formats they know     *)
(* raise an error whose message holds that fmt, and return no code in a    *)
(* default format.                                                         *)
C19_UnknownFormat ==
    (/\ codeOp \in { "isbn", "ean" } /\ codeDone
     /\ codeArg[1] \notin KnownFormats[codeOp]) =>
        /\ codeErr # "none"
        /\ codeArg[1] \in Range(codeMsg)
        /\ codeRet = << >>

(* C20: a call of age, child_count or work_experience on one Personal      *)
(* instance leaves the stored age of every other instance as it was.       *)
C20_AgeOwned ==
    [][\A q \in DOMAIN store :
           q # pCall'.inst => store'[q] = store[q]]_vars

\* child_count on a fresh instance has stored an age of its own while the
\* other instance keeps the different age stored there before.
C20_Witness ==
    /\ pCall.op = "child_count" /\ pCall.inst = 2 /\ ~pCall.ageBefore
    /\ ageSet[1]
    /\ store[1].age # NoAge
    /\ store[2].age # NoAge
    /\ store[1].age # store[2].age

---------------------------------------------------------------------------
(* romanized.                                                              *)

WrapperReturned ==
    codeOp = "romanized" /\ codeDone /\ codeErr = "none"

HasEntry(loc, c) == c \in DOMAIN ROMANIZATION_ALPHABETS[loc]

RECURSIVE Entries(_, _)
\* The entries of the characters of text, one after the other
Entries(loc, text) ==
    IF text = << >> THEN << >>
    ELSE ROMANIZATION_ALPHABETS[loc][Head(text)]
            \o Entries(loc, Tail(text))

IsCommon(c) == c \in CommonChars

WithEntry(loc, text) ==
    LET Test(c) == HasEntry(loc, c) IN SelectSeq(text, Test)

\* C21 as stated: a function decorated with romanized(locale) for a
\* supported locale returns the text of the wrapped function with each
\* character replaced, in order, by its entry in the romanization alphabet
\* of the locale, the digits, spaces, hyphens, underscores and punctuation
\* unchanged. It fails for a text holding a character without entry.
C21_EachCharacterReplaced ==
    WrapperReturned =>
        /\ \A i \in 1 .. Len(codeArg[2]) : HasEntry(codeArg[1], codeArg[2][i])
        /\ codeRet = Entries(codeArg[1], codeArg[2])

\* C21 amended: the function returns the entries, in order, of the
\* characters of the text that have an entry in the alphabet of the locale;
\* a character without entry is left out; the digits, spaces, hyphens,
\* underscores and punctuation of the text are the ones of the result, in
\* the same order.
C21_CharactersWithEntryReplaced ==
    WrapperReturned =>
        /\ codeRet = Entries(codeArg[1], WithEntry(codeArg[1], codeArg[2]))
        /\ SelectSeq(codeRet, IsCommon) = SelectSeq(codeArg[2], IsCommon)

C21_Witness ==
    /\ WrapperReturned
    /\ codeArg = << "ru", << "CYRILLIC_CHE", NoEntryChar, "-" >> >>
    /\ codeRet = << "C", "h", "-" >>

NoAlphabet ==
    codeOp = "romanized" /\ codeArg[1] \notin DOMAIN ROMANIZATION_ALPHABETS

\* C29: a function decorated with romanized(locale) for a locale without
\* romanization alphabet raises UnsupportedLocale on every call; the
\* decoration itself raises nothing, and the wrapped function is never
\* executed.
C29_UnsupportedLocale ==
    NoAlphabet =>
        /\ funcRuns = 0
        /\ wrapperCalls = 0 => codeErr = "none" /\ ~codeDone
        /\ wrapperCalls > 0 =>
            /\ decorated
            /\ codeErr = "UnsupportedLocale"
            /\ codeRet = << >>

C29_Witness ==
    /\ NoAlphabet
    /\ decorated
    /\ wrapperCalls = MaxWrapperCalls
    /\ codeErr = "UnsupportedLocale"
    /\ funcRuns = 0

---------------------------------------------------------------------------
(* Business.price.                                                         *)

PriceReturned == codeOp = "price" /\ codeDone

\* The result ends with a space and the symbol
EndsWith(text, symbol) ==
    /\ Len(text) > Len(symbol) + 1
    /\ SubSeq(text, Len(text) - Len(symbol) + 1, Len(text)) = symbol
    /\ text[Len(text) - Len(symbol)] = " "

\* The text is an amount: digits, a point and two digits
IsAmount(text) ==
    /\ Len(text) >= 4
    /\ text[Len(text) - 2] = "."
    /\ \A i \in DOMAIN text : i # Len(text) - 2 => IsDigit(text[i])

\* C22: price appends the currency symbol of the locale of the provider,
\* and for a locale without entry in the table of currency symbols it
\* appends the symbol 'default' and raises nothing.
C22_PriceSymbol ==
    PriceReturned =>
        LET loc == codeArg[1]
            symbol == IF loc \in { "en", "ru" }
                      THEN CURRENCY_SYMBOLS[loc]
                      ELSE CURRENCY_SYMBOLS["default"]
        IN  /\ codeErr = "none"
            /\ EndsWith(codeRet, symbol)
            /\ IsAmount(SubSeq(codeRet, 1, Len(codeRet) - Len(symbol) - 1))

C22_Witness ==
    /\ PriceReturned
    /\ codeArg = << "xx", 10, 11 >>
    /\ codeRet = << "1", "0", ".", "5", "0", " ", "$" >>

---------------------------------------------------------------------------
(* Numbers.primes.                                                         *)

IsPrime(n) == n > 1 /\ \A d \in 2 .. (n - 1) : n % d # 0

\* C23 (fails): for start < end, primes(start, end) returns the prime
\* numbers of the range: every element returned is a prime of the range
\* and every prime of the range is returned.
C23_PrimesOfRange ==
    (codeOp = "primes" /\ codeDone) =>
        /\ codeErr = "none"
        /\ { codeRet[i] : i \in DOMAIN codeRet }
            = { n \in codeArg[1] .. (codeArg[2] - 1) : IsPrime(n) }

---------------------------------------------------------------------------
(* Personal.child_count.                                                   *)

\* C24 (fails): child_count(max_childs) returns 0 whenever the stored age
\* (the age an earlier call stored, or on a fresh instance the age the call
\* itself establishes) is below 18, and otherwise an integer of
\* 0..max_childs, for every stored age and every max_childs >= 0.
C24_ChildCount ==
    pCall.op = "child_count" =>
        /\ pCall.ret \in 0 .. pCall.args[1]
        /\ (pCall.ageBefore /\ pCall.pre < 18) => pCall.ret = 0
        /\ (~pCall.ageBefore /\ store[pCall.inst].age < 18) => pCall.ret = 0

---------------------------------------------------------------------------
(* Personal.telephone.                                                     *)

\* C25 (fails): telephone called without a mask, on a locale whose bundle
\* has no entry 'telephone_fmt', expands the default mask
\* '+#-(###)-###-####': the result has that shape, every '#' replaced by a
\* digit.
C25_DefaultTelephone ==
    (/\ codeOp = "telephone" /\ codeDone
     /\ ~codeArg[1] /\ codeArg[2] = << >>
     /\ codeSym[2] = "#") =>
        /\ Len(codeRet) = Len(DefaultTelephoneMask)
        /\ \A i \in DOMAIN codeRet :
               IF DefaultTelephoneMask[i] = "#"
               THEN IsDigit(codeRet[i])
               ELSE codeRet[i] = DefaultTelephoneMask[i]

---------------------------------------------------------------------------
(* Code.custom_code: the set of its outputs.                               *)

RECURSIVE Pow(_, _)
Pow(b, e) == IF e = 0 THEN 1 ELSE b * Pow(b, e - 1)

Count(mask, p) == Cardinality({ i \in DOMAIN mask : mask[i] = p })

\* The characters a position of the mask holding p can be filled with
Fills(p, char, digit) ==
    IF p = char THEN UpperChars
    ELSE IF p = digit THEN DigitChars
    ELSE { p }

RECURSIVE Fillings(_, _, _)
\* The strings obtained by filling each position of the mask independently
Fillings(mask, char, digit) ==
    IF mask = << >> THEN { << >> }
    ELSE { << c >> \o rest : c \in Fills(Head(mask), char, digit),
                             rest \in Fillings(Tail(mask), char, digit) }

\* The outputs a call of custom_code can return
Outputs(mask, char, digit) ==
    { custom_code(mask, char, digit, tape) :
        tape \in Tapes(NumDraws(mask, char, digit)) }

\* C26: for a mask with k digit placeholders and m letter placeholders the
\* set of the possible outputs of custom_code is exactly the 10^k * 26^m
\* strings obtained by filling each placeholder independently: before the
\* call every such string is a possible output, and the string a call
\* returned is one of them.
C26_OutputSet ==
    codeOp = "custom_code" =>
        LET mask == codeArg
            k == Count(mask, codeSym[2])
            m == Count(mask, codeSym[1])
        IN  /\ ~codeDone =>
                /\ Outputs(mask, codeSym[1], codeSym[2])
                    = Fillings(mask, codeSym[1], codeSym[2])
                /\ Cardinality(Outputs(mask, codeSym[1], codeSym[2]))
                    = Pow(10, k) * Pow(26, m)
            /\ codeDone =>
                /\ Len(codeRet) = Len(mask)
                /\ \A i \in DOMAIN mask :
                       codeRet[i] \in Fills(mask[i], codeSym[1], codeSym[2])

\* Two placeholders of the same kind have been filled with different values.
C26_Witness ==
    /\ codeOp = "custom_code" /\ codeDone
    /\ codeArg = << "#", "#" >> /\ codeSym = DefaultSymbols
    /\ codeRet = << "9", "0" >>

---------------------------------------------------------------------------
(* Generic.add_provider and the lazy accessors.                            *)

\* C27 (fails): add_provider called with a class whose resolved name is
\* the name of a lazy accessor (a class named Personal, resolving to
\* 'personal') completes and stores the new instance under that name, so
\* that the name afterwards gives the registered instance.
C27_AccessorNameRegistered ==
    (/\ gCall.op = "add_provider"
     /\ gCall.cls.isClass /\ ~gCall.cls.needsArgs
     /\ gCall.name \in LazyNames) =>
        /\ gCall.err = "none"
        /\ gCall.ret.kind = "instance"
        /\ gCall.ret.cls = gCall.cls.name
        /\ gCall.name \in DOMAIN dict
        /\ dict[gCall.name] = gCall.ret

---------------------------------------------------------------------------
(* Network.ip_v6.                                                          *)

RECURSIVE SplitOn(_, _)
\* text.split(sep)
SplitOn(text, sep) ==
    IF \A i \in DOMAIN text : text[i] # sep THEN << text >>
    ELSE LET i == CHOOSE x \in DOMAIN text :
                    text[x] = sep /\ \A y \in 1 .. (x - 1) : text[y] # sep
         IN  << SubSeq(text, 1, i - 1) >>
                 \o SplitOn(SubSeq(text, i + 1, Len(text)), sep)

IsHexGroup(g) ==
    /\ Len(g) \in 1 .. 4
    /\ \A i \in DOMAIN g : g[i] \in Range(hexdigits)

\* C30 (fails): ip_v6 returns 8 groups separated by colons, the first one
\* '2001', every other one a hexadecimal value of 0..0xFFFF, of at most 4
\* hexadecimal digits.
C30_IpV6Groups ==
    (codeOp = "ip_v6" /\ codeDone) =>
        LET groups == SplitOn(codeRet, ":")
        IN  /\ Len(groups) = 8
            /\ groups[1] = << "2", "0", "0", "1" >>
            /\ \A i \in 2 .. Len(groups) : IsHexGroup(groups[i])

---------------------------------------------------------------------------
(* Structured.json('personal', items).                                     *)

\* The record holds an age and what depends on it agrees with that age
AgreesWithAge(r) ==
    /\ "child_count" \in DOMAIN r =>
           /\ "age" \in DOMAIN r
           /\ r["child_count"] \in 0 .. 5
           /\ r["age"] < 18 => r["child_count"] = 0
    /\ "work_experience" \in DOMAIN r =>
           /\ "age" \in DOMAIN r
           /\ r["work_experience"] = Max(r["age"] - 22, 0)

PersonalJson == jsonPc # "idle" /\ JsonLower[jsonArgs[1]] = "personal"

\* C28: in every record of json('personal', items = n), work_experience is
\* max(age - 22, 0) for the age of the same record and child_count is 0
\* when that age is below 18: the attributes of a record are generated in
\* the order of their names on one Personal instance, so that age is
\* generated before child_count and work_experience, which do not generate
\* it again; the records number n when the call returns.
C28_RecordAgrees ==
    PersonalJson =>
        /\ \A i \in DOMAIN records :
               /\ DOMAIN records[i] = Range(PersonalAttributes)
               /\ AgreesWithAge(records[i])
        /\ AgreesWithAge(element)
        /\ "age" \in DOMAIN element => store[1].age = element["age"]
        /\ (pCall.op \in Dependents) => pCall.ageCalls = 0
        /\ jsonPc = "returned" => Len(records) = jsonArgs[2]

\* Two records of one call: an adult with children and years of work, then
\* a minor.
C28_Witness ==
    /\ PersonalJson /\ jsonPc = "returned"
    /\ Len(records) = 2
    /\ records[1]["age"] = 40
    /\ records[1]["child_count"] = 3
    /\ records[1]["work_experience"] = 18
    /\ records[2]["age"] = 17
    /\ records[2]["work_experience"] = 0

=============================================================================
